---------------------------- MODULE Spec2Model ----------------------------
(***************************************************************************)
(* A model of monarch's field types (src/src/schema-type.ts), of the       *)
(* queries FindOneQuery and FindOneAndUpdateQuery                          *)
(* (src/src/collection/query/find-one-and-update.ts) and of the Go         *)
(* collections (src/collection.go, src/collection_bound.go).               *)
(*                                                                         *)
(* JavaScript values are records [t, s, n]: t is the tag of the value, s   *)
(* the characters of a string (a sequence of one-character strings), n the *)
(* number of a number, 0/1 of a boolean, or the epoch milliseconds of a    *)
(* Date.                                                                   *)
(***************************************************************************)
EXTENDS Integers, Sequences, FiniteSets, Bags, TLC

VARIABLES
    schemaType,   \* the MonarchSchemaType object under configuration
    result,       \* outcome of the most recent method call on schemaType
    _filter,      \* FindOneQuery._filter
    _population,  \* FindOneQuery._population, entries in Object.entries order
    pc,           \* where each exec() call on the query stands, in call order
    commands,     \* store commands the query has issued, oldest first
    execError,    \* the error each exec() rejected with, NoExecError if none
    execCount,    \* exec() calls made on the query
    queryClass,   \* the class of the query: FindOneQuery or FindOneAndUpdateQuery
    _schema,      \* the query's _schema, by the name of its collection
    _projection,  \* the query's _projection: field -> 1 | 0
    execResult,   \* what each exec() resolved with, NoResult before
    _update,      \* the update of a FindOneAndUpdateQuery: its $set
    _options,     \* the options of a FindOneAndUpdateQuery, as entries
    insertQuery,  \* an InsertOneQuery or InsertManyQuery: its data and its exec() calls
    stores,       \* Go: the documents of each collection of each database
    bound,        \* Go: the BoundCollection made by Bind
    lastCall,     \* Go: the most recent method call, its driver calls and results
    cursorOp,     \* Go: a cursor operation in progress, its cursor and its yields
    opened        \* Go: the calls of Find and Aggregate that have their cursor and
                  \*     have not called cursor.All yet, as a bag

varsSchemaType == <<schemaType, result>>
varsUpdate == <<_update, _options, insertQuery>>
varsQuery == <<_filter, _population, pc, commands, execError, execCount,
               queryClass, _schema, _projection, execResult, _update, _options,
               insertQuery>>
varsCollection == <<stores, bound, lastCall, cursorOp, opened>>
vars == <<schemaType, result, _filter, _population, pc, commands, execError, execCount,
          queryClass, _schema, _projection, execResult, _update, _options, insertQuery,
          stores, bound, lastCall, cursorOp, opened>>

(***************************************************************************)
(* Bounds                                                                  *)
(***************************************************************************)
\* uppercase()/lowercase() calls chained on one string field
MaxTransformations == 2
\* keys in the object given to one populate() call; the calls add up in
\* this._population
MaxPopulateKeys == 1
\* exec() calls on one query
MaxExec == 2

(***************************************************************************)
(* JavaScript values                                                       *)
(***************************************************************************)
Undefined == [t |-> "undefined", s |-> <<>>, n |-> 0]
Null == [t |-> "null", s |-> <<>>, n |-> 0]
NaN == [t |-> "NaN", s |-> <<>>, n |-> 0]
Str(s) == [t |-> "string", s |-> s, n |-> 0]
Num(n) == [t |-> "number", s |-> <<>>, n |-> n]
Bool(b) == [t |-> "boolean", s |-> <<>>, n |-> IF b THEN 1 ELSE 0]
DateOf(ms) == [t |-> "date", s |-> <<>>, n |-> ms]
\* what a configuration method returns: the object itself
This == [t |-> "this", s |-> <<>>, n |-> 0]

\* typeof value
TypeOf(v) ==
    CASE v.t = "undefined" -> "undefined"
      [] v.t = "null" -> "object"
      [] v.t = "date" -> "object"
      [] v.t = "this" -> "object"
      [] v.t = "string" -> "string"
      [] v.t = "number" -> "number"
      [] v.t = "NaN" -> "number"
      [] v.t = "boolean" -> "boolean"

\* value instanceof Date
InstanceOfDate(v) == v.t = "date"

Digits == <<"0", "1", "2", "3", "4", "5", "6", "7", "8", "9">>
LowerLetters ==
    <<"a", "b", "c", "d", "e", "f", "g", "h", "i", "j", "k", "l", "m",
      "n", "o", "p", "q", "r", "s", "t", "u", "v", "w", "x", "y", "z">>
UpperLetters ==
    <<"A", "B", "C", "D", "E", "F", "G", "H", "I", "J", "K", "L", "M",
      "N", "O", "P", "Q", "R", "S", "T", "U", "V", "W", "X", "Y", "Z">>

IndexIn(seq, c) == CHOOSE i \in 1..Len(seq) : seq[i] = c
IsIn(seq, c) == \E i \in 1..Len(seq) : seq[i] = c

UpperChar(c) == IF IsIn(LowerLetters, c) THEN UpperLetters[IndexIn(LowerLetters, c)] ELSE c
LowerChar(c) == IF IsIn(UpperLetters, c) THEN LowerLetters[IndexIn(UpperLetters, c)] ELSE c

\* String.prototype.toUpperCase / toLowerCase on the characters of a string
ToUpperCase(s) == [i \in 1..Len(s) |-> UpperChar(s[i])]
ToLowerCase(s) == [i \in 1..Len(s) |-> LowerChar(s[i])]

\* the decimal digits of a natural number
RECURSIVE DecimalOf(_)
DecimalOf(n) == IF n < 10 THEN <<Digits[n + 1]>> ELSE DecimalOf(n \div 10) \o <<Digits[(n % 10) + 1]>>

\* Number.prototype.toString of an integer
NumberToString(n) == IF n < 0 THEN <<"-">> \o DecimalOf(-n) ELSE DecimalOf(n)

\* Date.prototype.toString, for the epoch, in the UTC time zone
DateToString(ms) ==
    <<"T", "h", "u", " ", "J", "a", "n", " ", "0", "1", " ", "1", "9", "7", "0", " ",
      "0", "0", ":", "0", "0", ":", "0", "0", " ", "G", "M", "T", "+", "0", "0", "0", "0",
      " ", "(", "C", "o", "o", "r", "d", "i", "n", "a", "t", "e", "d", " ",
      "U", "n", "i", "v", "e", "r", "s", "a", "l", " ", "T", "i", "m", "e", ")">>

\* String(value)
StringOf(v) ==
    CASE v.t = "undefined" -> Str(<<"u", "n", "d", "e", "f", "i", "n", "e", "d">>)
      [] v.t = "null" -> Str(<<"n", "u", "l", "l">>)
      [] v.t = "string" -> v
      [] v.t = "number" -> Str(NumberToString(v.n))
      [] v.t = "NaN" -> Str(<<"N", "a", "N">>)
      [] v.t = "boolean" -> Str(IF v.n = 1 THEN <<"t", "r", "u", "e">> ELSE <<"f", "a", "l", "s", "e">>)
      [] v.t = "date" -> Str(DateToString(v.n))

\* the value of a string of decimal digits
RECURSIVE DigitsValue(_)
DigitsValue(s) ==
    IF s = <<>> THEN 0
    ELSE 10 * DigitsValue(SubSeq(s, 1, Len(s) - 1)) + (IndexIn(Digits, s[Len(s)]) - 1)

\* Number(value); of a string: 0 for the empty string, the value of a string of
\* decimal digits, NaN for a string holding a letter (RawValues holds no string
\* with white space, a sign, a point, an exponent or a radix prefix)
NumberOf(v) ==
    CASE v.t = "undefined" -> NaN
      [] v.t = "null" -> Num(0)
      [] v.t = "string" ->
            IF \A i \in 1..Len(v.s) : IsIn(Digits, v.s[i]) THEN Num(DigitsValue(v.s)) ELSE NaN
      [] v.t = "number" -> v
      [] v.t = "NaN" -> v
      [] v.t = "boolean" -> Num(v.n)
      [] v.t = "date" -> Num(v.n)

\* Boolean(value)
BooleanOf(v) ==
    CASE v.t = "undefined" -> Bool(FALSE)
      [] v.t = "null" -> Bool(FALSE)
      [] v.t = "string" -> Bool(v.s # <<>>)
      [] v.t = "number" -> Bool(v.n # 0)
      [] v.t = "NaN" -> Bool(FALSE)
      [] v.t = "boolean" -> v
      [] v.t = "date" -> Bool(TRUE)

\* raw values handed to baseParse and parse
RawValues ==
    { Undefined, Null, NaN,
      Str(<<>>), Str(<<"A", "n", "a">>), Str(<<"1", "2">>), Str(<<"a", "B">>),
      Num(0), Num(12), Bool(TRUE), Bool(FALSE), DateOf(0) }


(***************************************************************************)
(* MonarchTransformations (./value-transformation): the ordered list of    *)
(* transformations of a field, each named by the function it applies.      *)
(***************************************************************************)
\* one registered transformation applied to a value
ApplyOne(f, v) ==
    CASE f = "String" -> StringOf(v)
      [] f = "toUpperCase" -> Str(ToUpperCase(v.s))
      [] f = "toLowerCase" -> Str(ToLowerCase(v.s))

addTransformation(this, f) ==
    [this EXCEPT !.transformations = Append(this.transformations, f)]

RECURSIVE ApplyFrom(_, _, _)
ApplyFrom(fs, i, v) == IF i > Len(fs) THEN v ELSE ApplyFrom(fs, i + 1, ApplyOne(fs[i], v))

applyTransformation(this, v) == ApplyFrom(this.transformations, 1, v)

(***************************************************************************)
(* MonarchSchemaType                                                       *)
(***************************************************************************)
MonarchSchemaTypeKind == {"string", "number", "date", "objectId", "boolean"}

\* new MonarchSchemaType(def): the field initialisers and the constructor
MonarchSchemaType(def) ==
    [ type |-> def,
      _default |-> Undefined,
      _required |-> TRUE,
      _nullable |-> FALSE,
      transformations |-> <<>> ]

\* outcomes of a call: a returned value, or a thrown Error with its message;
\* arg is the text interpolated into the message, type the kind it names
NoError == [msg |-> "", arg |-> <<>>, type |-> ""]
Return(v) == [ok |-> TRUE, value |-> v, error |-> NoError]
Throw(msg, arg, type) ==
    [ok |-> FALSE, value |-> Undefined, error |-> [msg |-> msg, arg |-> arg, type |-> type]]

getInnerType(this) == this.type
getDefault(this) == this._default
isRequired(this) == this._required
isNullable(this) == this._nullable

baseParse_DefaultFirst(this, value) ==
    IF isRequired(this) /\ value = Undefined
    THEN Throw("Field is required.", <<>>, "")
    ELSE LET afterNull == IF isNullable(this) /\ value = Null THEN Null ELSE Undefined
         IN  IF value # Undefined /\ TypeOf(value) # getInnerType(this)
             THEN Throw("Field must be of type '%s'.", <<>>, getInnerType(this))
             ELSE LET afterType == IF value # Undefined THEN value ELSE afterNull
                  IN  Return(IF getDefault(this) # Undefined THEN getDefault(this) ELSE afterType)

baseParse_RequiredUnchecked(this, value) ==
    LET afterNull == IF isNullable(this) /\ value = Null THEN Null ELSE Undefined
    IN  IF value # Undefined /\ TypeOf(value) # getInnerType(this)
        THEN Throw("Field must be of type '%s'.", <<>>, getInnerType(this))
        ELSE LET afterType == IF value # Undefined THEN value ELSE afterNull
             IN  Return(IF afterType # Undefined THEN afterType ELSE getDefault(this))

baseParse(this, value) ==
    IF isRequired(this) /\ value = Undefined
    THEN Throw("Field is required.", <<>>, "")
    ELSE LET afterNull == IF isNullable(this) /\ value = Null THEN Null ELSE Undefined
         IN  IF value # Undefined /\ TypeOf(value) # getInnerType(this)
             THEN Throw("Field must be of type '%s'.", <<>>, getInnerType(this))
             ELSE LET afterType == IF value # Undefined THEN value ELSE afterNull
                  IN  Return(IF afterType # Undefined THEN afterType ELSE getDefault(this))

default(this, value) == [this EXCEPT !._default = value]
required(this) == [this EXCEPT !._required = TRUE]
optional(this) == [this EXCEPT !._required = FALSE]
\* nullable() that leaves a default configured before in place
nullable_DefaultKept(this) == [this EXCEPT !._nullable = TRUE]
nullable(this) == [this EXCEPT !._nullable = TRUE, !._default = Null]

(***************************************************************************)
(* MonarchString, MonarchNumber, MonarchDate, MonarchBoolean               *)
(***************************************************************************)
MonarchString_create == addTransformation(MonarchSchemaType("string"), "String")
MonarchNumber_create == MonarchSchemaType("number")
MonarchDate_create == MonarchSchemaType("date")
MonarchBoolean_create == MonarchSchemaType("boolean")

MonarchString_parse_Untransformed(this, value) ==
    IF TypeOf(value) # "string" /\ this._required
    THEN Throw("Field '%s' is required", StringOf(value).s, "")
    ELSE Return(value)

MonarchString_parse(this, value) ==
    IF TypeOf(value) # "string" /\ this._required
    THEN Throw("Field '%s' is required", StringOf(value).s, "")
    ELSE Return(applyTransformation(this, value))

uppercase(this) == addTransformation(this, "toUpperCase")
lowercase(this) == addTransformation(this, "toLowerCase")

MonarchNumber_parse(this, value) ==
    IF TypeOf(value) # "number" /\ this._required
    THEN Throw("Not a number", <<>>, "")
    ELSE Return(NumberOf(value))

MonarchDate_parse(this, value) ==
    IF ~InstanceOfDate(value) /\ this._required
    THEN Throw("Field '%s' is required and must be a Date", StringOf(value).s, "")
    ELSE Return(value)

MonarchBoolean_parse(this, value) ==
    IF TypeOf(value) # "boolean" /\ this._required
    THEN Throw("Not a boolean", <<>>, "")
    ELSE Return(BooleanOf(value))

\* this.parse(value), dispatched on the class of the object
parse(this, value) ==
    CASE this.type = "string" -> MonarchString_parse(this, value)
      [] this.type = "number" -> MonarchNumber_parse(this, value)
      [] this.type = "date" -> MonarchDate_parse(this, value)
      [] this.type = "boolean" -> MonarchBoolean_parse(this, value)

\* the exported constructors: string, number, boolean, date
Constructors ==
    {MonarchString_create, MonarchNumber_create, MonarchBoolean_create, MonarchDate_create}

\* values default(value: K) accepts for a field of each kind
DefaultValues(kind) ==
    CASE kind = "string" -> {Str(<<>>), Str(<<"A", "n", "a">>)}
      [] kind = "number" -> {Num(0), Num(12)}
      [] kind = "boolean" -> {Bool(TRUE), Bool(FALSE)}
      [] kind = "date" -> {DateOf(0)}

\* the outcome of a call, as result records it
Call(op, input, outcome) ==
    [op |-> op, input |-> input, ok |-> outcome.ok, value |-> outcome.value,
     error |-> outcome.error]

(***************************************************************************)
(* FindOneQuery: populate() and the pipeline of _execWithPopulate          *)
(***************************************************************************)
\* the schemas a query may run on, by collection name.  relations: the declared
\* keys, each with the name of its target collection and the target field;
\* options.omit: the fields the schema omits by default, undefined on articles
Schemas ==
    [ posts |->
        [ name |-> "posts",
          relations |->
            [ author |-> [target |-> [name |-> "users"], options |-> [field |-> "_id"]],
              editor |-> [target |-> [name |-> "users"], options |-> [field |-> "_id"]] ],
          options |-> [omit |-> [defined |-> TRUE, keys |-> {"secret"}]] ],
      articles |->
        [ name |-> "articles",
          relations |->
            [ author |-> [target |-> [name |-> "users"], options |-> [field |-> "_id"]],
              editor |-> [target |-> [name |-> "users"], options |-> [field |-> "email"]] ],
          options |-> [omit |-> [defined |-> FALSE, keys |-> {}]] ],
      reviews |->
        [ name |-> "reviews",
          relations |->
            [ writer |-> [target |-> [name |-> "users"], options |-> [field |-> "_id"]] ],
          options |-> [omit |-> [defined |-> FALSE, keys |-> {}]] ] ]

\* the schemas whose relations are all declared under the name of the field
\* that holds the foreign key
QuerySchemas == {"posts", "articles"}

\* this._schema.relations
Relations == Schemas[_schema].relations

\* the local field a relation declares, the one holding the foreign key: the
\* relation's key, except that reviews declares writer on its field author
LocalField(schema, key) ==
    IF schema = "reviews" /\ key = "writer" THEN "author" ELSE key

\* _schema.options.omit ?? {}, an object of true flags given as its keys
SchemaOmit(schema) ==
    IF Schemas[schema].options.omit.defined THEN Schemas[schema].options.omit.keys ELSE {}

\* makeProjection(type, projection): the flag of the type on each key of a
\* projection given as the keys it sets to true
makeProjection(type, projection) ==
    [k \in projection |-> IF type = "select" THEN 1 ELSE 0]

\* addExtraInputsToProjection(projection, virtuals): the schemas here declare no
\* virtual fields, so no input is added and the projection stays as it is
addExtraInputsToProjection(projection) == projection

\* an object given as its entries, and the undefined in its place, whose
\* spread adds no entry
ObjectOf(entries) == [t |-> "object", entries |-> entries]
NoObject == [t |-> "undefined", entries |-> <<>>]

\* a field's value: one the caller gave, or one computed by an update hook,
\* told apart by the exec that computed it
Given(v) == [t |-> "given", v |-> v, at |-> 0]
Computed(now) == [t |-> "computed", v |-> "", at |-> now]

\* Schema.getFieldUpdates(schema): the values of the fields that declare an
\* update hook, computed at the call: posts computes updatedAt, articles and
\* reviews declare none
getFieldUpdates(schema, now) ==
    IF schema = "posts" THEN << [key |-> "updatedAt", value |-> Computed(now)] >>
    ELSE << >>

\* the $set a caller may give with the update, none included
CallerSets ==
    { NoObject,
      ObjectOf(<< >>),
      ObjectOf(<< [key |-> "title", value |-> Given("new")] >>),
      ObjectOf(<< [key |-> "updatedAt", value |-> Given("caller")],
                  [key |-> "title", value |-> Given("new")] >>) }

\* the options a caller may give to options()
OptionObjects ==
    { << [key |-> "returnDocument", value |-> "after"] >>,
      << [key |-> "upsert", value |-> "true"] >> }

\* the fields a caller may name in select() and omit()
ProjectionKeys == {"title", "secret"}

QueryClasses == {"FindOneQuery", "FindOneAndUpdateQuery"}

\* keys a caller may hand to populate(); "ghost" is declared on no schema.
\* None is integer-like, so Object.entries lists them in insertion order.
PopulationKeys == {"author", "editor", "ghost"}

\* filters of the caller, opaque to the query
Filters == {"filterA", "filterB"}

NoExecError == [name |-> "", message |-> "", key |-> ""]

\* target[key] = value, keeping the place of a key the object already has
SetProperty(target, key, value) ==
    IF \E i \in 1..Len(target) : target[i].key = key
    THEN [i \in 1..Len(target) |->
            IF target[i].key = key THEN [key |-> key, value |-> value] ELSE target[i]]
    ELSE Append(target, [key |-> key, value |-> value])

\* Object.assign(target, source) on objects given as their entries
RECURSIVE ObjectAssign(_, _)
ObjectAssign(target, source) ==
    IF source = <<>> THEN target
    ELSE ObjectAssign(SetProperty(target, Head(source).key, Head(source).value), Tail(source))

(***************************************************************************)
(* InsertOneQuery and InsertManyQuery                                      *)
(***************************************************************************)
\* documents given to one insertMany()
MaxInsertDocs == 2

\* the undefined as the value of a key, and the id the store generated for
\* the i-th document of the command-th insert it was sent: a fresh one
\* every time
UndefinedValue == [t |-> "undefined", v |-> "", at |-> 0]
Generated(command, i) ==
    [t |-> "generated", v |-> "", at |-> (command - 1) * MaxInsertDocs + i]

NoInsert == [class |-> "none"]

\* the documents a caller may insert: without an _id key, with an _id, with
\* an _id key that holds undefined, and with the _id written last
InputDocuments ==
    { << [key |-> "name", value |-> Given("Ana")] >>,
      << [key |-> "_id", value |-> Given("u7")], [key |-> "name", value |-> Given("Ana")] >>,
      << [key |-> "_id", value |-> UndefinedValue], [key |-> "name", value |-> Given("Ana")] >>,
      << [key |-> "name", value |-> Given("Bob")], [key |-> "_id", value |-> Given("u8")] >> }

HasId(doc) == \E i \in 1..Len(doc) : doc[i].key = "_id" /\ doc[i].value # UndefinedValue

IdOf(doc) == doc[CHOOSE i \in 1..Len(doc) : doc[i].key = "_id"].value

\* collection.insertMany(docs) and insertOne(doc), the command-th insert
\* sent: the inserted ids, in the order of the documents, are the _id of a
\* document that has one and a generated id otherwise; a store that assigns
\* writes the generated id into the document it was given
InsertedIds(docs, command) ==
    [i \in 1..Len(docs) |->
        IF HasId(docs[i]) THEN IdOf(docs[i]) ELSE Generated(command, i)]

Inserted(docs, assigns, command) ==
    [i \in 1..Len(docs) |->
        IF assigns /\ ~HasId(docs[i])
        THEN SetProperty(docs[i], "_id", Generated(command, i))
        ELSE docs[i]]

\* this._schema.fromData(data): the output decoded from the document
fromData(data) == [kind |-> "fromData", data |-> data]

\* the map of InsertManyQuery.exec with the inserted id spread last
InsertManyQuery_exec_IdLast(data, insertedIds) ==
    [index \in 1..Len(data) |->
        fromData(ObjectAssign(data[index],
                              << [key |-> "_id", value |-> insertedIds[index]] >>))]

\* InsertManyQuery.exec after its await: this.data.map((data, index) =>
\* fromData({ _id: result.insertedIds[index], ...data }))
InsertManyQuery_exec(data, insertedIds) ==
    [index \in 1..Len(data) |->
        fromData(ObjectAssign(<< [key |-> "_id", value |-> insertedIds[index]] >>,
                              data[index]))]

\* InsertOneQuery.exec after its await:
\* fromData({ _id: result.insertedId, ...this.data })
InsertOneQuery_exec(data, insertedId) ==
    fromData(ObjectAssign(<< [key |-> "_id", value |-> insertedId] >>, data))

RelationStages_DataByTarget(key) ==
    LET population == Relations[key]
        foreignCollectionName == population.target.name
        foreignField == population.options.field
        foreignFieldVariable == "monarch_" \o foreignField \o "_var"
        foreignFieldData == "monarch_" \o foreignCollectionName \o "_data"
    IN  << [ op |-> "$lookup",
             from |-> foreignCollectionName,
             let |-> [name |-> foreignFieldVariable, value |-> "$" \o key],
             pipeline |-> << [ op |-> "$match",
                               expr |-> [eq |-> <<"$" \o foreignField,
                                                  "$$" \o foreignFieldVariable>>] ] >>,
             as |-> foreignFieldData ],
           [ op |-> "$unwind", path |-> "$" \o foreignFieldData ],
           [ op |-> "$unset", field |-> key ],
           [ op |-> "$set", field |-> key, value |-> "$" \o foreignFieldData ],
           [ op |-> "$unset", field |-> foreignFieldData ] >>

RelationStages_PreserveEmpty(key) ==
    LET population == Relations[key]
        foreignCollectionName == population.target.name
        foreignField == population.options.field
        foreignFieldVariable == "monarch_" \o foreignField \o "_var"
        foreignFieldData == "monarch_" \o key \o "_data"
    IN  << [ op |-> "$lookup",
             from |-> foreignCollectionName,
             let |-> [name |-> foreignFieldVariable, value |-> "$" \o key],
             pipeline |-> << [ op |-> "$match",
                               expr |-> [eq |-> <<"$" \o foreignField,
                                                  "$$" \o foreignFieldVariable>>] ] >>,
             as |-> foreignFieldData ],
           [ op |-> "$unwind", path |-> "$" \o foreignFieldData,
             preserveNullAndEmptyArrays |-> TRUE ],
           [ op |-> "$unset", field |-> key ],
           [ op |-> "$set", field |-> key, value |-> "$" \o foreignFieldData ],
           [ op |-> "$unset", field |-> foreignFieldData ] >>

\* the five stages with a last one that unsets the variable's name
RelationStages_TemporaryLeft(key) ==
    LET population == Relations[key]
        foreignCollectionName == population.target.name
        foreignField == population.options.field
        foreignFieldVariable == "monarch_" \o foreignField \o "_var"
        foreignFieldData == "monarch_" \o key \o "_data"
    IN  << [ op |-> "$lookup",
             from |-> foreignCollectionName,
             let |-> [name |-> foreignFieldVariable, value |-> "$" \o key],
             pipeline |-> << [ op |-> "$match",
                               expr |-> [eq |-> <<"$" \o foreignField,
                                                  "$$" \o foreignFieldVariable>>] ] >>,
             as |-> foreignFieldData ],
           [ op |-> "$unwind", path |-> "$" \o foreignFieldData ],
           [ op |-> "$unset", field |-> key ],
           [ op |-> "$set", field |-> key, value |-> "$" \o foreignFieldData ],
           [ op |-> "$unset", field |-> foreignFieldVariable ] >>

\* the five stages one relation contributes
RelationStages(key) ==
    LET population == Relations[key]
        foreignCollectionName == population.target.name
        foreignField == population.options.field
        foreignFieldVariable == "monarch_" \o foreignField \o "_var"
        foreignFieldData == "monarch_" \o key \o "_data"
    IN  << [ op |-> "$lookup",
             from |-> foreignCollectionName,
             let |-> [name |-> foreignFieldVariable, value |-> "$" \o key],
             pipeline |-> << [ op |-> "$match",
                               expr |-> [eq |-> <<"$" \o foreignField,
                                                  "$$" \o foreignFieldVariable>>] ] >>,
             as |-> foreignFieldData ],
           [ op |-> "$unwind", path |-> "$" \o foreignFieldData ],
           [ op |-> "$unset", field |-> key ],
           [ op |-> "$set", field |-> key, value |-> "$" \o foreignFieldData ],
           [ op |-> "$unset", field |-> foreignFieldData ] >>

RECURSIVE PopulateLoop_FalsyKept(_, _, _)
PopulateLoop_FalsyKept(entries, i, pipeline) ==
    IF i > Len(entries) THEN [ok |-> TRUE, pipeline |-> pipeline, error |-> NoExecError]
    ELSE IF entries[i].key \notin DOMAIN Relations
         THEN [ ok |-> FALSE, pipeline |-> pipeline,
                error |-> [ name |-> "TypeError",
                            message |-> "Cannot read properties of undefined (reading 'target')",
                            key |-> "" ] ]
    ELSE PopulateLoop_FalsyKept(entries, i + 1, pipeline \o RelationStages(entries[i].key))

\* the for loop of _execWithPopulate from entry i on: the pipeline, or the
\* TypeError of reading .target of the undefined this._schema.relations[key]
RECURSIVE PopulateLoop(_, _, _)
PopulateLoop(entries, i, pipeline) ==
    IF i > Len(entries) THEN [ok |-> TRUE, pipeline |-> pipeline, error |-> NoExecError]
    ELSE IF ~entries[i].value THEN PopulateLoop(entries, i + 1, pipeline)
    ELSE IF entries[i].key \notin DOMAIN Relations
         THEN [ ok |-> FALSE, pipeline |-> pipeline,
                error |-> [ name |-> "TypeError",
                            message |-> "Cannot read properties of undefined (reading 'target')",
                            key |-> "" ] ]
    ELSE PopulateLoop(entries, i + 1, pipeline \o RelationStages(entries[i].key))

\* the pipeline _execWithPopulate builds before it calls aggregate
BuildPipeline(filter, population) ==
    PopulateLoop(population, 1, << [op |-> "$match", filter |-> filter] >>)

\* objects with at most MaxPopulateKeys keys, as their entries in the order written
PopulationObjects ==
    { p \in UNION { [1..n -> [key : PopulationKeys, value : BOOLEAN]] : n \in 0..MaxPopulateKeys } :
        \A i, j \in 1..Len(p) : i # j => p[i].key # p[j].key }

(***************************************************************************)
(* The store the query's commands run against.  A document is a function   *)
(* from field names to values; a value is a string, an array of documents  *)
(* or an embedded document.                                                *)
(***************************************************************************)
S(x) == [t |-> "string", s |-> x]
ArrayOf(items) == [t |-> "array", items |-> items]
DocOf(doc) == [t |-> "doc", doc |-> doc]
Missing == [t |-> "missing"]

User(id, email) == [f \in {"_id", "email"} |-> IF f = "_id" THEN S(id) ELSE S(email)]

Host(id, status, author, editor) ==
    [f \in {"_id", "status", "title", "secret", "author", "editor"} |->
        CASE f = "_id" -> S(id)
          [] f = "status" -> S(status)
          [] f = "title" -> S("title of " \o id)
          [] f = "secret" -> S("secret of " \o id)
          [] f = "author" -> S(author)
          [] f = "editor" -> S(editor)]

\* the collections of the database, in natural order.  p2 and a2 name an
\* author no user has as _id; a1 names an editor two users have as email, a2
\* one no user has
Store ==
    [ users |-> << User("u1", "a@x"), User("u2", "b@x"), User("u3", "b@x") >>,
      posts |-> << Host("p1", "draft", "u1", "u2"), Host("p2", "published", "u9", "u1") >>,
      articles |-> << Host("a1", "draft", "u1", "b@x"), Host("a2", "published", "u9", "z@x") >>,
      reviews |-> << Host("r1", "published", "u1", "u2"), Host("r2", "draft", "u3", "u1") >> ]

\* the caller's filters, as the store reads them: filterA is
\* {status: "published"}, filterB is {}
FilterMatches(filter, doc) ==
    filter = "filterB" \/ doc["status"] = S("published")

\* the value of the field path "$f" of doc
FieldPath(doc, path) ==
    IF \E f \in DOMAIN doc : "$" \o f = path
    THEN doc[CHOOSE f \in DOMAIN doc : "$" \o f = path]
    ELSE Missing

SetField(doc, field, value) ==
    [f \in DOMAIN doc \cup {field} |-> IF f = field THEN value ELSE doc[f]]

UnsetField(doc, field) == [f \in DOMAIN doc \ {field} |-> doc[f]]

RECURSIVE Flatten(_)
Flatten(seqs) == IF seqs = <<>> THEN <<>> ELSE Head(seqs) \o Flatten(Tail(seqs))

\* $lookup with let and a sub-pipeline of one $match on $expr $eq: the
\* documents of from whose field equals the variable, which is defined only
\* under the name let binds
Lookup(stage, doc) ==
    LET eq == stage.pipeline[1].expr.eq
        variable == IF eq[2] = "$$" \o stage.let.name
                    THEN FieldPath(doc, stage.let.value) ELSE Missing
        joined == SelectSeq(Store[stage.from], LAMBDA t : FieldPath(t, eq[1]) = variable)
    IN  SetField(doc, stage.as, ArrayOf(joined))

\* $unwind: one document per element of the array; a document whose field is
\* missing or an empty array is dropped unless preserveNullAndEmptyArrays
Unwind(stage, doc) ==
    LET value == FieldPath(doc, stage.path)
        field == CHOOSE f \in DOMAIN doc : "$" \o f = stage.path
        preserve == "preserveNullAndEmptyArrays" \in DOMAIN stage
    IN  IF value = Missing THEN (IF preserve THEN <<doc>> ELSE <<>>)
        ELSE IF value.t # "array" THEN <<doc>>
        ELSE IF value.items = <<>> THEN (IF preserve THEN <<UnsetField(doc, field)>> ELSE <<>>)
        ELSE [i \in 1..Len(value.items) |-> SetField(doc, field, DocOf(value.items[i]))]

\* $set of a field to a field path: nothing is set when the path is missing
SetStage(stage, doc) ==
    IF FieldPath(doc, stage.value) = Missing THEN doc
    ELSE SetField(doc, stage.field, FieldPath(doc, stage.value))

\* one stage applied to the documents flowing through the pipeline
RunStage(stage, docs) ==
    CASE stage.op = "$match" -> SelectSeq(docs, LAMBDA d : FilterMatches(stage.filter, d))
      [] stage.op = "$lookup" -> [i \in 1..Len(docs) |-> Lookup(stage, docs[i])]
      [] stage.op = "$unwind" -> Flatten([i \in 1..Len(docs) |-> Unwind(stage, docs[i])])
      [] stage.op = "$unset" -> [i \in 1..Len(docs) |-> UnsetField(docs[i], stage.field)]
      [] stage.op = "$set" -> [i \in 1..Len(docs) |-> SetStage(stage, docs[i])]

RECURSIVE RunPipeline(_, _)
RunPipeline(pipeline, docs) ==
    IF pipeline = <<>> THEN docs
    ELSE RunPipeline(Tail(pipeline), RunStage(Head(pipeline), docs))

\* the store's projection of a document: the fields flagged 1 and _id, or all
\* but the fields flagged 0
Project(doc, projection) ==
    IF \E k \in DOMAIN projection : projection[k] = 1
    THEN [f \in {g \in DOMAIN doc : g = "_id" \/ (g \in DOMAIN projection /\ projection[g] = 1)}
            |-> doc[f]]
    ELSE [f \in {g \in DOMAIN doc : ~(g \in DOMAIN projection /\ projection[g] = 0)} |-> doc[f]]

\* collection.aggregate(pipeline).toArray()
StoreAggregate(collection, pipeline) == RunPipeline(pipeline, Store[collection])

\* collection.findOne(filter, {projection}): the first match, projected
StoreFindOne(collection, filter, projection) ==
    LET found == SelectSeq(Store[collection], LAMBDA d : FilterMatches(filter, d))
    IN  IF found = <<>> THEN <<>> ELSE <<Project(found[1], projection)>>

(***************************************************************************)
(* Go: Collection[T] and BoundCollection[T]                                *)
(***************************************************************************)
\* the databases (*mongo.Database handles) and the collection names
DBs == {"dbA", "dbB"}
CollectionNames == {"users", "posts"}

\* the document type T: an _id and one field; Zero is Go's zero value of T
Doc(id, v) == [id |-> id, v |-> v]
Zero == Doc(0, 0)

\* filters: bson.M{} and bson.M{"_id": id}
All == [all |-> TRUE, id |-> 0]
ById(id) == [all |-> FALSE, id |-> id]
GoFilters == {All, ById(1)}
\* values to insert, the replacement document, and the update {$set: {v: 1}}
Values == {Doc(1, 0), Doc(2, 1)}
Replacement == Doc(1, 1)
Update == [set |-> 1]

\* errors: Go's nil, the driver's errors, and monarch's ErrNoDatabase
NoErr == "nil"
ErrNoDocuments == "mongo: no documents in result"
ErrCommand == "driver: command failed"
ErrDecode == "driver: cannot decode"
ErrDuplicateKey == "driver: duplicate key"
ErrImmutableId == "driver: _id is immutable"
ErrNoDatabase == "monarch: no database in context"

\* what the driver meets during a call: nothing, a failing command, or a
\* document that cannot be decoded
Faults == {"none", "command", "decode"}

\* contexts: context.Background() and WithContext(ctx, db)
NoDatabase == "none"
Background == [database |-> NoDatabase]
WithContext(ctx, db) == [ctx EXCEPT !.database = db]
Contexts == {Background} \cup {WithContext(Background, db) : db \in DBs}

\* getDB(ctx): the database WithContext injected, ErrNoDatabase without one
getDB(ctx) ==
    IF ctx.database = NoDatabase THEN [db |-> NoDatabase, err |-> ErrNoDatabase]
    ELSE [db |-> ctx.database, err |-> NoErr]

(***************************************************************************)
(* The driver: db.Collection(name) and the operations of *mongo.Collection *)
(* on the documents of the store, in ascending _id order.  Each returns    *)
(* its result, its error and the documents of the collection afterwards.   *)
(***************************************************************************)
Matches(filter, doc) == filter.all \/ doc.id = filter.id

RECURSIVE Ordered(_)
Ordered(docs) ==
    IF docs = {} THEN <<>>
    ELSE LET first == CHOOSE d \in docs : \A e \in docs : d.id <= e.id
         IN  <<first>> \o Ordered(docs \ {first})

Matching(docs, filter) == Ordered({d \in docs : Matches(filter, d)})

Reply(value, err, docs) == [result |-> value, err |-> err, docs |-> docs]

\* collection.Find and collection.Aggregate with one $match: a cursor
driver_Find(fault, docs, filter) ==
    IF fault = "command" THEN Reply(<<>>, ErrCommand, docs)
    ELSE Reply(Matching(docs, filter), NoErr, docs)

\* cursor.All(ctx, &results)
cursor_All(fault, cursor) ==
    IF fault = "decode" /\ cursor # <<>> THEN [results |-> <<>>, err |-> ErrDecode]
    ELSE [results |-> cursor, err |-> NoErr]

\* SingleResult.Decode(&result) on the document a single-result command found
Decode(fault, docs, found) ==
    IF found = <<>> THEN Reply(Zero, ErrNoDocuments, docs)
    ELSE IF fault = "decode" THEN Reply(Zero, ErrDecode, docs)
    ELSE Reply(found[1], NoErr, docs)

driver_FindOne(fault, docs, filter) ==
    IF fault = "command" THEN Reply(Zero, ErrCommand, docs)
    ELSE Decode(fault, docs, Matching(docs, filter))

driver_FindOneAndUpdate(fault, docs, filter, update) ==
    IF fault = "command" THEN Reply(Zero, ErrCommand, docs)
    ELSE LET found == Matching(docs, filter)
         IN  IF found = <<>> THEN Decode(fault, docs, found)
             ELSE Decode(fault, (docs \ {found[1]}) \cup {Doc(found[1].id, update.set)}, found)

driver_FindOneAndReplace(fault, docs, filter, replacement) ==
    IF fault = "command" THEN Reply(Zero, ErrCommand, docs)
    ELSE LET found == Matching(docs, filter)
         IN  IF found = <<>> THEN Decode(fault, docs, found)
             ELSE IF found[1].id # replacement.id THEN Reply(Zero, ErrImmutableId, docs)
             ELSE Decode(fault, (docs \ {found[1]}) \cup {replacement}, found)

driver_FindOneAndDelete(fault, docs, filter) ==
    IF fault = "command" THEN Reply(Zero, ErrCommand, docs)
    ELSE LET found == Matching(docs, filter)
         IN  IF found = <<>> THEN Decode(fault, docs, found)
             ELSE Decode(fault, docs \ {found[1]}, found)

NoInsertOneResult == [insertedID |-> 0]
driver_InsertOne(fault, docs, value) ==
    IF fault = "command" THEN Reply(NoInsertOneResult, ErrCommand, docs)
    ELSE IF \E d \in docs : d.id = value.id THEN Reply(NoInsertOneResult, ErrDuplicateKey, docs)
    ELSE Reply([insertedID |-> value.id], NoErr, docs \cup {value})

\* an ordered insert: the documents before the first duplicate are inserted
RECURSIVE InsertOrdered(_, _, _)
InsertOrdered(docs, values, inserted) ==
    IF values = <<>> THEN Reply([insertedIDs |-> inserted], NoErr, docs)
    ELSE IF \E d \in docs : d.id = Head(values).id
         THEN Reply([insertedIDs |-> inserted], ErrDuplicateKey, docs)
    ELSE InsertOrdered(docs \cup {Head(values)}, Tail(values), Append(inserted, Head(values).id))

driver_InsertMany(fault, docs, values) ==
    IF fault = "command" THEN Reply([insertedIDs |-> <<>>], ErrCommand, docs)
    ELSE InsertOrdered(docs, values, <<>>)

UpdateResult(matched, modified) == [matchedCount |-> matched, modifiedCount |-> modified]

\* the documents of targets carry update's value afterwards
Updated(docs, targets, update) ==
    {IF d \in targets THEN Doc(d.id, update.set) ELSE d : d \in docs}

driver_UpdateOne(fault, docs, filter, update) ==
    IF fault = "command" THEN Reply(UpdateResult(0, 0), ErrCommand, docs)
    ELSE LET found == Matching(docs, filter)
         IN  IF found = <<>> THEN Reply(UpdateResult(0, 0), NoErr, docs)
             ELSE Reply(UpdateResult(1, IF found[1].v = update.set THEN 0 ELSE 1), NoErr,
                        Updated(docs, {found[1]}, update))

driver_UpdateMany(fault, docs, filter, update) ==
    IF fault = "command" THEN Reply(UpdateResult(0, 0), ErrCommand, docs)
    ELSE LET targets == {d \in docs : Matches(filter, d)}
         IN  Reply(UpdateResult(Cardinality(targets),
                                Cardinality({d \in targets : d.v # update.set})),
                   NoErr, Updated(docs, targets, update))

driver_ReplaceOne(fault, docs, filter, replacement) ==
    IF fault = "command" THEN Reply(UpdateResult(0, 0), ErrCommand, docs)
    ELSE LET found == Matching(docs, filter)
         IN  IF found = <<>> THEN Reply(UpdateResult(0, 0), NoErr, docs)
             ELSE IF found[1].id # replacement.id
                  THEN Reply(UpdateResult(0, 0), ErrImmutableId, docs)
             ELSE Reply(UpdateResult(1, IF found[1] = replacement THEN 0 ELSE 1), NoErr,
                        (docs \ {found[1]}) \cup {replacement})

DeleteResult(deleted) == [deletedCount |-> deleted]

driver_DeleteOne(fault, docs, filter) ==
    IF fault = "command" THEN Reply(DeleteResult(0), ErrCommand, docs)
    ELSE LET found == Matching(docs, filter)
         IN  IF found = <<>> THEN Reply(DeleteResult(0), NoErr, docs)
             ELSE Reply(DeleteResult(1), NoErr, docs \ {found[1]})

driver_DeleteMany(fault, docs, filter) ==
    IF fault = "command" THEN Reply(DeleteResult(0), ErrCommand, docs)
    ELSE LET targets == {d \in docs : Matches(filter, d)}
         IN  Reply(DeleteResult(Cardinality(targets)), NoErr, docs \ targets)

driver_CountDocuments(fault, docs, filter) ==
    IF fault = "command" THEN Reply(0, ErrCommand, docs)
    ELSE Reply(Cardinality({d \in docs : Matches(filter, d)}), NoErr, docs)

(***************************************************************************)
(* Go: the operations that open a cursor, step by step.  A cursor          *)
(* operation is a record: the operation, where it stands, what the driver  *)
(* will do (fail to open the cursor, the items the cursor delivers before  *)
(* Next returns false, the error Err() holds after that), what the         *)
(* consumer of an iterator will do (stop at its stopAt-th yield, never if  *)
(* 0), and what has happened so far: the items taken from the cursor, the  *)
(* cursors opened, the Close calls made, the pairs yielded, the return.    *)
(* While the loop body of the consumer runs on a pair, the operation       *)
(* stands at "body" and after tells where the iterator goes on when yield  *)
(* returns.                                                                *)
(***************************************************************************)
\* documents a cursor delivers
MaxCursorDocs == 2

\* iterators a consumer ranges over inside one another
MaxNesting == 2

ErrCursor == "driver: cursor failed"

CursorOps == {"Find", "FindSeq", "Aggregate", "AggregateAs", "FindAs", "FindSeqAs"}
\* the operations that return an iterator
SeqOps == {"FindSeq", "FindSeqAs"}
\* the methods of Collection that wait on the driver twice: for the cursor,
\* then for the documents of the cursor
CursorMethods == {"Find", "Aggregate"}

\* goroutines that call the methods of the collection
MaxGoroutines == 2

NoCursorOp == [op |-> "none", pc |-> "none"]

\* the cursors of n items: item i holds document i, which decodes or not
Cursors(n) ==
    { [i \in 1..n |-> [doc |-> Doc(i, 0), decodable |-> f[i]]] : f \in [1..n -> BOOLEAN] }

\* the operation as its call returns: FindSeq and FindSeqAs have returned the
\* iterator function and run nothing of it; of the others the body starts
CursorOp(op, openFails, docs, cursorErr, stopAt) ==
    [ op |-> op, pc |-> "created", after |-> "none",
      openFails |-> openFails, docs |-> docs, cursorErr |-> cursorErr, stopAt |-> stopAt,
      next |-> 0, opens |-> 0, closes |-> 0,
      yields |-> <<>>, stopped |-> FALSE,
      results |-> <<>>, err |-> NoErr ]

\* the iterator a call c.FindSeq(ctx, db, filter) returned, not run yet, in
\* the hands of a consumer that will stop at its stopAt-th yield: the
\* cursor operation with the collection, database and filter it captured;
\* outer is the iterator in whose loop body the consumer ranges over this one
FindSeqIterator(c, db, filter, stopAt) ==
    [ op |-> "FindSeq", pc |-> "created", after |-> "none",
      c |-> c, db |-> db, filter |-> filter,
      openFails |-> FALSE, docs |-> <<>>, cursorErr |-> NoErr, stopAt |-> stopAt,
      next |-> 0, opens |-> 0, closes |-> 0,
      yields |-> <<>>, stopped |-> FALSE,
      results |-> <<>>, err |-> NoErr,
      outer |-> NoCursorOp ]

\* a call of Find or Aggregate as its body starts: the cursor operation with
\* the arguments of the call, the filter it hands to the driver and what the
\* driver meets during the call
Operation(c, ctx, db, call, filter, fault) ==
    [ op |-> call.method, pc |-> "created", after |-> "none",
      receiver |-> "Collection", c |-> c, ctx |-> ctx, db |-> db, call |-> call,
      filter |-> filter, fault |-> fault,
      openFails |-> FALSE, docs |-> <<>>, cursorErr |-> NoErr, stopAt |-> 0,
      next |-> 0, opens |-> 0, closes |-> 0,
      yields |-> <<>>, stopped |-> FALSE,
      results |-> <<>>, err |-> NoErr ]

\* the consumers of an iterator a call returned: one that ranges to the end
\* and one that breaks at the first pair
StopChoices == {0, 1}

\* the iterator with the answer of collection.Find(ctx, filter) on the
\* documents of its collection: the failure to open, or the cursor's items
Found(it, fault, docs) ==
    LET found == driver_Find(fault, docs, it.filter)
    IN  [it EXCEPT !.openFails = (found.err # NoErr),
                   !.docs = [i \in 1..Len(found.result) |->
                               [doc |-> found.result[i], decodable |-> (fault # "decode")]]]

\* yield(value, err): the pair goes to the consumer, whose loop body runs on
\* it; the iterator goes on at after when the body has ended
yield(it, value, err, after) ==
    [it EXCEPT !.yields = Append(@, [value |-> value, err |-> err]),
               !.pc = "body", !.after = after]

\* a return after defer cursor.Close(ctx): the cursor is closed, the body ends
ReturnDeferred(it) == [it EXCEPT !.closes = @ + 1, !.pc = "done"]

\* FindSeq's iterator when run, up to the loop: the cursor is opened, or the
\* failure to open it is yielded, with a return to follow
FindSeq_Open(it) ==
    IF it.openFails
    THEN yield(it, Zero, ErrCommand, "return")
    ELSE [it EXCEPT !.opens = @ + 1, !.pc = "loop"]

\* one round of the loop on a cursor whose Next returned true, up to the
\* call of yield: the item is decoded and yielded with the error of decoding
FindSeq_Loop(it) ==
    LET item == it.docs[it.next + 1]
    IN  yield([it EXCEPT !.next = @ + 1],
              IF item.decodable THEN item.doc ELSE Zero,
              IF item.decodable THEN NoErr ELSE ErrDecode,
              "loop")

\* yield returns to an iterator that does not look at its answer
FindSeq_Yielded_IgnoreStop(it) ==
    LET answered == [it EXCEPT !.stopped = (Len(it.yields) = it.stopAt), !.after = "none"]
    IN  CASE it.after = "return" -> [answered EXCEPT !.pc = "done"]
          [] it.after = "end" -> [answered EXCEPT !.closes = @ + 1, !.pc = "done"]
          [] it.after = "loop" -> [answered EXCEPT !.pc = "loop"]

\* yield returns to an iterator that ends its loop after a pair that held an
\* error
FindSeq_Yielded_BreakOnError(it) ==
    LET answered == [it EXCEPT !.stopped = (Len(it.yields) = it.stopAt), !.after = "none"]
    IN  CASE it.after = "return" -> [answered EXCEPT !.pc = "done"]
          [] it.after = "end" -> [answered EXCEPT !.closes = @ + 1, !.pc = "done"]
          [] it.after = "loop" ->
                IF answered.stopped \/ it.yields[Len(it.yields)].err # NoErr
                THEN [answered EXCEPT !.closes = @ + 1, !.pc = "done"]
                ELSE [answered EXCEPT !.pc = "loop"]

\* yield returns: the loop body has ended, with the answer false when the
\* consumer breaks.  After the failure to open the iterator returns; after
\* the cursor's error it comes to its end and the cursor is closed; in the
\* loop it returns, closing the cursor, on the answer false and goes back to
\* cursor.Next on the answer true
FindSeq_Yielded(it) ==
    LET answered == [it EXCEPT !.stopped = (Len(it.yields) = it.stopAt), !.after = "none"]
    IN  CASE it.after = "return" -> [answered EXCEPT !.pc = "done"]
          [] it.after = "end" -> ReturnDeferred(answered)
          [] it.after = "loop" ->
                IF answered.stopped THEN ReturnDeferred(answered)
                ELSE [answered EXCEPT !.pc = "loop"]

\* the end of the iterator with a yield of whatever cursor.Err() returns,
\* nil included
FindSeq_Err_YieldsNil(it) == yield(it, Zero, it.cursorErr, "end")

\* after the loop, Next having returned false: the cursor's error, if any,
\* is yielded, with the end of the iterator to follow; without one the
\* iterator ends
FindSeq_Err(it) ==
    IF it.cursorErr # NoErr
    THEN yield(it, Zero, it.cursorErr, "end")
    ELSE ReturnDeferred(it)

\* Find, FindAs, Aggregate, AggregateAs up to cursor.All: the cursor is
\* opened, or the operation returns nil and the error
Cursor_Open(it) ==
    IF it.openFails
    THEN [it EXCEPT !.err = ErrCommand, !.pc = "done"]
    ELSE [it EXCEPT !.opens = @ + 1, !.pc = "all"]

\* the rest of Find, FindAs, Aggregate, AggregateAs with the cursor closed
\* by a call after cursor.All succeeded instead of a deferred one
Cursor_All_CloseOnSuccess(it) ==
    LET n == Len(it.docs)
        err == IF \E i \in 1..n : ~it.docs[i].decodable THEN ErrDecode ELSE it.cursorErr
    IN  IF err = NoErr
        THEN [it EXCEPT !.next = n, !.results = [i \in 1..n |-> it.docs[i].doc],
                        !.closes = @ + 1, !.pc = "done"]
        ELSE [it EXCEPT !.next = n, !.err = err, !.pc = "done"]

\* the rest of Find, FindAs, Aggregate, AggregateAs: cursor.All takes every
\* item; its error is returned with nil, else the documents are returned
Cursor_All(it) ==
    LET n == Len(it.docs)
        err == IF \E i \in 1..n : ~it.docs[i].decodable THEN ErrDecode ELSE it.cursorErr
    IN  ReturnDeferred([it EXCEPT !.next = n, !.err = err,
                                  !.results = IF err = NoErr
                                              THEN [i \in 1..n |-> it.docs[i].doc]
                                              ELSE <<>>])

(***************************************************************************)
(* Collection[T]: each method on the environment env = [stores, fault].    *)
(* A method that waits on the driver once returns its result and error,    *)
(* the stores afterwards, and the driver operations it called.  Find and   *)
(* Aggregate wait twice: they give the operation as it stands when         *)
(* collection.Find or collection.Aggregate has answered, returned already  *)
(* (done) or with cursor.All still to be called (all).                     *)
(***************************************************************************)
Env(s, fault) == [stores |-> s, fault |-> fault]

\* db.Collection(string(c)): the documents of the collection
Handle(env, db, c) == env.stores[db][c]

Outcome(env, db, c, op, reply) ==
    [ result |-> reply.result,
      err |-> reply.err,
      stores |-> [env.stores EXCEPT ![db][c] = reply.docs],
      driver |-> << [db |-> db, collection |-> c, op |-> op] >> ]

\* Find up to its second wait: collection.Find(ctx, filter) on the documents
\* as they are; the error is returned, or the cursor is kept for cursor.All
Collection_Find(c, ctx, db, filter, env) ==
    Cursor_Open(Found(Operation(c, ctx, db, [method |-> "Find", filter |-> filter],
                                filter, env.fault),
                      env.fault, Handle(env, db, c)))

\* what Find or Aggregate returns once its operation is done, with the
\* stores as they are then
Returned(it, s) ==
    [ result |-> it.results,
      err |-> it.err,
      stores |-> s,
      driver |-> << [db |-> it.db, collection |-> it.c, op |-> it.op] >> ]

\* the iterator function FindSeq returns, by what it has captured
Seq2(c, db, filter) == [seq |-> [c |-> c, db |-> db, filter |-> filter]]

\* FindSeq returns the iterator function and nothing else: it has no error
\* result, it makes no driver call and leaves the stores alone; collection.Find
\* is called when the iterator is run
Collection_FindSeq(c, ctx, db, filter, env) ==
    [ result |-> Seq2(c, db, filter),
      err |-> NoErr,
      stores |-> env.stores,
      driver |-> << >> ]

Collection_FindOne_NotFoundNil(c, ctx, db, filter, env) ==
    LET reply == driver_FindOne(env.fault, Handle(env, db, c), filter)
    IN  Outcome(env, db, c, "FindOne",
                IF reply.err = ErrNoDocuments THEN Reply(Zero, NoErr, reply.docs) ELSE reply)

Collection_FindOne(c, ctx, db, filter, env) ==
    Outcome(env, db, c, "FindOne", driver_FindOne(env.fault, Handle(env, db, c), filter))

Collection_FindOneAndUpdate(c, ctx, db, filter, update, env) ==
    Outcome(env, db, c, "FindOneAndUpdate",
            driver_FindOneAndUpdate(env.fault, Handle(env, db, c), filter, update))

Collection_FindOneAndReplace(c, ctx, db, filter, replacement, env) ==
    Outcome(env, db, c, "FindOneAndReplace",
            driver_FindOneAndReplace(env.fault, Handle(env, db, c), filter, replacement))

Collection_FindOneAndDelete(c, ctx, db, filter, env) ==
    Outcome(env, db, c, "FindOneAndDelete",
            driver_FindOneAndDelete(env.fault, Handle(env, db, c), filter))

Collection_InsertOne(c, ctx, db, value, env) ==
    Outcome(env, db, c, "InsertOne", driver_InsertOne(env.fault, Handle(env, db, c), value))

Collection_InsertMany(c, ctx, db, values, env) ==
    LET docs == [i \in 1..Len(values) |-> values[i]]
    IN  Outcome(env, db, c, "InsertMany",
                driver_InsertMany(env.fault, Handle(env, db, c), docs))

Collection_UpdateOne(c, ctx, db, filter, update, env) ==
    Outcome(env, db, c, "UpdateOne",
            driver_UpdateOne(env.fault, Handle(env, db, c), filter, update))

Collection_UpdateMany(c, ctx, db, filter, update, env) ==
    Outcome(env, db, c, "UpdateMany",
            driver_UpdateMany(env.fault, Handle(env, db, c), filter, update))

Collection_ReplaceOne(c, ctx, db, filter, replacement, env) ==
    Outcome(env, db, c, "ReplaceOne",
            driver_ReplaceOne(env.fault, Handle(env, db, c), filter, replacement))

Collection_DeleteOne(c, ctx, db, filter, env) ==
    Outcome(env, db, c, "DeleteOne", driver_DeleteOne(env.fault, Handle(env, db, c), filter))

Collection_DeleteMany(c, ctx, db, filter, env) ==
    Outcome(env, db, c, "DeleteMany", driver_DeleteMany(env.fault, Handle(env, db, c), filter))

Collection_CountDocuments(c, ctx, db, filter, env) ==
    Outcome(env, db, c, "CountDocuments",
            driver_CountDocuments(env.fault, Handle(env, db, c), filter))

\* Aggregate with the pipeline [{$match: filter}] up to its second wait:
\* collection.Aggregate(ctx, pipeline) on the documents as they are
Collection_Aggregate(c, ctx, db, pipeline, env) ==
    Cursor_Open(Found(Operation(c, ctx, db, [method |-> "Aggregate", pipeline |-> pipeline],
                                pipeline[1].match, env.fault),
                      env.fault, Handle(env, db, c)))

\* the methods with the arguments a caller passes after ctx (and db)
Calls ==
    [method : {"Find", "FindSeq", "FindOne", "FindOneAndDelete", "DeleteOne", "DeleteMany",
               "CountDocuments"},
     filter : GoFilters]
    \cup [method : {"FindOneAndUpdate", "UpdateOne", "UpdateMany"},
          filter : GoFilters, update : {Update}]
    \cup [method : {"FindOneAndReplace", "ReplaceOne"},
          filter : GoFilters, replacement : {Replacement}]
    \cup [method : {"InsertOne"}, value : Values]
    \cup [method : {"InsertMany"}, values : {<<Doc(1, 0), Doc(2, 1)>>, <<Doc(2, 1)>>}]
    \cup [method : {"Aggregate"}, pipeline : {<<[match |-> All]>>}]

\* c.<method>(ctx, db, args...)
Collection_Call(c, ctx, db, call, env) ==
    CASE call.method = "Find" -> Collection_Find(c, ctx, db, call.filter, env)
      [] call.method = "FindSeq" -> Collection_FindSeq(c, ctx, db, call.filter, env)
      [] call.method = "FindOne" -> Collection_FindOne(c, ctx, db, call.filter, env)
      [] call.method = "FindOneAndUpdate" ->
            Collection_FindOneAndUpdate(c, ctx, db, call.filter, call.update, env)
      [] call.method = "FindOneAndReplace" ->
            Collection_FindOneAndReplace(c, ctx, db, call.filter, call.replacement, env)
      [] call.method = "FindOneAndDelete" ->
            Collection_FindOneAndDelete(c, ctx, db, call.filter, env)
      [] call.method = "InsertOne" -> Collection_InsertOne(c, ctx, db, call.value, env)
      [] call.method = "InsertMany" -> Collection_InsertMany(c, ctx, db, call.values, env)
      [] call.method = "UpdateOne" ->
            Collection_UpdateOne(c, ctx, db, call.filter, call.update, env)
      [] call.method = "UpdateMany" ->
            Collection_UpdateMany(c, ctx, db, call.filter, call.update, env)
      [] call.method = "ReplaceOne" ->
            Collection_ReplaceOne(c, ctx, db, call.filter, call.replacement, env)
      [] call.method = "DeleteOne" -> Collection_DeleteOne(c, ctx, db, call.filter, env)
      [] call.method = "DeleteMany" -> Collection_DeleteMany(c, ctx, db, call.filter, env)
      [] call.method = "CountDocuments" ->
            Collection_CountDocuments(c, ctx, db, call.filter, env)
      [] call.method = "Aggregate" -> Collection_Aggregate(c, ctx, db, call.pipeline, env)

(***************************************************************************)
(* BoundCollection[T]                                                      *)
(***************************************************************************)
\* Bind(db, collection)
Bind(db, collection) == [db |-> db, c |-> collection]

BoundCollection_DeleteOne_Many(bc, ctx, filter, env) ==
    Collection_DeleteMany(bc.c, ctx, bc.db, filter, env)

BoundCollection_Find(bc, ctx, filter, env) == Collection_Find(bc.c, ctx, bc.db, filter, env)
BoundCollection_FindSeq(bc, ctx, filter, env) ==
    Collection_FindSeq(bc.c, ctx, bc.db, filter, env)
BoundCollection_FindOne(bc, ctx, filter, env) ==
    Collection_FindOne(bc.c, ctx, bc.db, filter, env)
BoundCollection_FindOneAndUpdate(bc, ctx, filter, update, env) ==
    Collection_FindOneAndUpdate(bc.c, ctx, bc.db, filter, update, env)
BoundCollection_FindOneAndReplace(bc, ctx, filter, replacement, env) ==
    Collection_FindOneAndReplace(bc.c, ctx, bc.db, filter, replacement, env)
BoundCollection_FindOneAndDelete(bc, ctx, filter, env) ==
    Collection_FindOneAndDelete(bc.c, ctx, bc.db, filter, env)
BoundCollection_InsertOne(bc, ctx, value, env) ==
    Collection_InsertOne(bc.c, ctx, bc.db, value, env)
BoundCollection_InsertMany(bc, ctx, values, env) ==
    Collection_InsertMany(bc.c, ctx, bc.db, values, env)
BoundCollection_UpdateOne(bc, ctx, filter, update, env) ==
    Collection_UpdateOne(bc.c, ctx, bc.db, filter, update, env)
BoundCollection_UpdateMany(bc, ctx, filter, update, env) ==
    Collection_UpdateMany(bc.c, ctx, bc.db, filter, update, env)
BoundCollection_ReplaceOne(bc, ctx, filter, replacement, env) ==
    Collection_ReplaceOne(bc.c, ctx, bc.db, filter, replacement, env)

BoundCollection_DeleteOne(bc, ctx, filter, env) ==
    Collection_DeleteOne(bc.c, ctx, bc.db, filter, env)
BoundCollection_DeleteMany(bc, ctx, filter, env) ==
    Collection_DeleteMany(bc.c, ctx, bc.db, filter, env)
BoundCollection_CountDocuments(bc, ctx, filter, env) ==
    Collection_CountDocuments(bc.c, ctx, bc.db, filter, env)
BoundCollection_Aggregate(bc, ctx, pipeline, env) ==
    Collection_Aggregate(bc.c, ctx, bc.db, pipeline, env)

\* bc.<method>(ctx, args...)
BoundCollection_Call(bc, ctx, call, env) ==
    CASE call.method = "Find" -> BoundCollection_Find(bc, ctx, call.filter, env)
      [] call.method = "FindSeq" -> BoundCollection_FindSeq(bc, ctx, call.filter, env)
      [] call.method = "FindOne" -> BoundCollection_FindOne(bc, ctx, call.filter, env)
      [] call.method = "FindOneAndUpdate" ->
            BoundCollection_FindOneAndUpdate(bc, ctx, call.filter, call.update, env)
      [] call.method = "FindOneAndReplace" ->
            BoundCollection_FindOneAndReplace(bc, ctx, call.filter, call.replacement, env)
      [] call.method = "FindOneAndDelete" ->
            BoundCollection_FindOneAndDelete(bc, ctx, call.filter, env)
      [] call.method = "InsertOne" -> BoundCollection_InsertOne(bc, ctx, call.value, env)
      [] call.method = "InsertMany" -> BoundCollection_InsertMany(bc, ctx, call.values, env)
      [] call.method = "UpdateOne" ->
            BoundCollection_UpdateOne(bc, ctx, call.filter, call.update, env)
      [] call.method = "UpdateMany" ->
            BoundCollection_UpdateMany(bc, ctx, call.filter, call.update, env)
      [] call.method = "ReplaceOne" ->
            BoundCollection_ReplaceOne(bc, ctx, call.filter, call.replacement, env)
      [] call.method = "DeleteOne" -> BoundCollection_DeleteOne(bc, ctx, call.filter, env)
      [] call.method = "DeleteMany" -> BoundCollection_DeleteMany(bc, ctx, call.filter, env)
      [] call.method = "CountDocuments" ->
            BoundCollection_CountDocuments(bc, ctx, call.filter, env)
      [] call.method = "Aggregate" -> BoundCollection_Aggregate(bc, ctx, call.pipeline, env)

\* the faults that can show at the wait of a method, the first one of Find
\* and Aggregate: only the methods that decode documents there can meet one
\* that cannot be decoded, and FindSeq, which calls no driver operation,
\* meets none
FaultsOf(method) ==
    IF method \in {"FindOne", "FindOneAndUpdate", "FindOneAndReplace", "FindOneAndDelete"}
    THEN Faults
    ELSE IF method = "FindSeq" THEN {"none"}
    ELSE Faults \ {"decode"}

\* the faults that can show at the second wait of Find and Aggregate, where
\* cursor.All decodes the documents of the cursor
FaultsOfAll == {"none", "decode"}

\* var Users Collection[User] = "users"
Users == "users"

NoCall == [receiver |-> "none"]

NoRemoval == [method |-> "none", removed |-> {}]

\* the removal the call made, if it was a DeleteOne or FindOneAndDelete that
\* removed a document of collection c of db: the method and the _id removed
Removal(call, db, c) ==
    IF call.receiver = "none" THEN NoRemoval
    ELSE IF /\ call.db = db
            /\ call.c = c
            /\ call.call.method \in {"DeleteOne", "FindOneAndDelete"}
            /\ call.removed # {}
         THEN [method |-> call.call.method, removed |-> call.removed]
    ELSE NoRemoval

\* the record of a call: what was called with what, what it returned, the
\* driver operations it made, the _ids it removed from the collection, and,
\* of a FindOne on a Collection, the removal the call before it made
CallRecord(receiver, c, ctx, db, call, fault, outcome) ==
    [ receiver |-> receiver, c |-> c, ctx |-> ctx, db |-> db, call |-> call,
      fault |-> fault, result |-> outcome.result, err |-> outcome.err,
      driver |-> outcome.driver,
      removed |-> {d.id : d \in stores[db][c]} \ {d.id : d \in outcome.stores[db][c]},
      follows |-> IF receiver = "Collection" /\ call.method = "FindOne"
                  THEN Removal(lastCall, db, c)
                  ELSE NoRemoval ]

EmptyStores == [db \in DBs |-> [name \in CollectionNames |-> {}]]

CollectionIdle ==
    /\ stores = EmptyStores
    /\ bound = Bind("dbA", "users")
    /\ lastCall = NoCall
    /\ cursorOp = NoCursorOp
    /\ opened = EmptyBag

(***************************************************************************)
(* The field-type specification: one field object, configured and asked to *)
(* validate in any order.                                                  *)
(***************************************************************************)
NoResult == [kind |-> "none"]

\* the constructor of FindOneAndUpdateQuery, given an update
UpdateQueryIdle(schema, filter, update) ==
    /\ queryClass = "FindOneAndUpdateQuery"
    /\ _schema = schema
    /\ _filter = filter
    /\ _update = update
    /\ _options = <<>>
    /\ insertQuery = NoInsert
    /\ _projection = makeProjection("omit", SchemaOmit(schema))
    /\ _population = <<>>
    /\ pc = <<>>
    /\ commands = <<>>
    /\ execError = <<>>
    /\ execCount = 0
    /\ execResult = <<>>

\* the constructor of FindOneQuery and of FindOneAndUpdateQuery, the latter
\* with an update that has no $set
QueryIdle(class, schema, filter) ==
    /\ _update = [set |-> NoObject]
    /\ _options = <<>>
    /\ insertQuery = NoInsert
    /\ queryClass = class
    /\ _schema = schema
    /\ _filter = filter
    /\ _projection = makeProjection("omit", SchemaOmit(schema))
    /\ _population = <<>>
    /\ pc = <<>>
    /\ commands = <<>>
    /\ execError = <<>>
    /\ execCount = 0
    /\ execResult = <<>>

InitSchemaType ==
    /\ schemaType \in Constructors
    /\ result = Call("create", Undefined, Return(This))
    /\ QueryIdle("FindOneQuery", "posts", "filterA")
    /\ CollectionIdle

Default(value) ==
    /\ schemaType' = default(schemaType, value)
    /\ result' = Call("default", value, Return(This))
    /\ UNCHANGED <<varsQuery, varsCollection>>

Required ==
    /\ schemaType' = required(schemaType)
    /\ result' = Call("required", Undefined, Return(This))
    /\ UNCHANGED <<varsQuery, varsCollection>>

Optional ==
    /\ schemaType' = optional(schemaType)
    /\ result' = Call("optional", Undefined, Return(This))
    /\ UNCHANGED <<varsQuery, varsCollection>>

Nullable ==
    /\ schemaType' = nullable(schemaType)
    /\ result' = Call("nullable", Undefined, Return(This))
    /\ UNCHANGED <<varsQuery, varsCollection>>

\* the transformations uppercase() and lowercase() have added
Chained(this) == Len(this.transformations) - 1

Uppercase ==
    /\ schemaType.type = "string"
    /\ Chained(schemaType) < MaxTransformations
    /\ schemaType' = uppercase(schemaType)
    /\ result' = Call("uppercase", Undefined, Return(This))
    /\ UNCHANGED <<varsQuery, varsCollection>>

Lowercase ==
    /\ schemaType.type = "string"
    /\ Chained(schemaType) < MaxTransformations
    /\ schemaType' = lowercase(schemaType)
    /\ result' = Call("lowercase", Undefined, Return(This))
    /\ UNCHANGED <<varsQuery, varsCollection>>

BaseParse(value) ==
    /\ result' = Call("baseParse", value, baseParse(schemaType, value))
    /\ UNCHANGED schemaType
    /\ UNCHANGED <<varsQuery, varsCollection>>

Parse(value) ==
    /\ result' = Call("parse", value, parse(schemaType, value))
    /\ UNCHANGED schemaType
    /\ UNCHANGED <<varsQuery, varsCollection>>

NextSchemaType ==
    \/ \E value \in DefaultValues(schemaType.type) : Default(value)
    \/ Required
    \/ Optional
    \/ Nullable
    \/ Uppercase
    \/ Lowercase
    \/ \E value \in RawValues : BaseParse(value)
    \/ \E value \in RawValues : Parse(value)

SpecSchemaType == InitSchemaType /\ [][NextSchemaType]_vars

(***************************************************************************)
(* The query specification: one FindOneQuery, populated and executed.      *)
(***************************************************************************)
SchemaTypeIdle ==
    /\ schemaType = MonarchString_create
    /\ result = Call("create", Undefined, Return(This))

InitQuery ==
    /\ SchemaTypeIdle
    /\ \E schema \in QuerySchemas, filter \in Filters :
          QueryIdle("FindOneQuery", schema, filter)
    /\ CollectionIdle

Populate(population) ==
    /\ _population' = ObjectAssign(_population, population)
    /\ UNCHANGED <<_filter, pc, commands, execError, execCount,
                   queryClass, _schema, _projection, execResult>>
    /\ UNCHANGED <<varsSchemaType, varsCollection, varsUpdate>>

\* exec() up to its await of this._readyPromise: the call is made, whatever
\* the calls made before it have come to, and waits
Exec ==
    /\ execCount < MaxExec
    /\ pc' = Append(pc, "awaitReady")
    /\ execCount' = execCount + 1
    /\ execError' = Append(execError, NoExecError)
    /\ execResult' = Append(execResult, NoResult)
    /\ UNCHANGED <<_filter, _population, commands, queryClass, _schema, _projection>>
    /\ UNCHANGED <<varsSchemaType, varsCollection, varsUpdate>>

\* the exec() calls that wait on this._readyPromise
Waiting == {call \in 1..Len(pc) : pc[call] = "awaitReady"}

\* the call whose exec() resumes next: all wait on the one promise, which
\* resumes them in the order in which they came to wait
Resumed == CHOOSE call \in Waiting : \A other \in Waiting : call <= other

\* the exec() has called the store: it waits for the answer or has resolved
\* with it
Sent(call) == pc[call] \in {"aggregate", "findOne", "findOneAndUpdate", "resolved"}

\* the command the exec() issued, the calls resuming in call order
CommandOf(call) == commands[Cardinality({c \in 1..call : Sent(c)})]

\* _execWithPopulate up to its await of aggregate(pipeline).toArray()
ExecWithPopulate ==
    LET built == BuildPipeline(_filter, _population)
    IN  IF built.ok
        THEN /\ commands' = Append(commands, [command |-> "aggregate", pipeline |-> built.pipeline])
             /\ pc' = [pc EXCEPT ![Resumed] = "aggregate"]
             /\ UNCHANGED execError
        ELSE /\ pc' = [pc EXCEPT ![Resumed] = "rejected"]
             /\ execError' = [execError EXCEPT ![Resumed] = built.error]
             /\ UNCHANGED commands

\* _execWithoutPopulate up to its await of findOne(filter, {...this._options,
\* projection: this._projection})
ExecWithoutPopulate ==
    /\ _projection' = addExtraInputsToProjection(_projection)
    /\ commands' = Append(commands, [command |-> "findOne", filter |-> _filter,
                                     options |-> _options,
                                     projection |-> _projection'])
    /\ pc' = [pc EXCEPT ![Resumed] = "findOne"]
    /\ UNCHANGED execError

\* FindOneAndUpdateQuery.exec with the merged $set kept in a local and
\* this._update left as the caller gave it
ExecFindOneAndUpdate_NoWriteBack ==
    /\ UNCHANGED _update
    /\ _projection' = addExtraInputsToProjection(_projection)
    /\ commands' = Append(commands,
                          [command |-> "findOneAndUpdate", filter |-> _filter,
                           update |-> [set |-> ObjectOf(
                                         ObjectAssign(getFieldUpdates(_schema, Resumed),
                                                      _update.set.entries))],
                           options |-> _options,
                           projection |-> _projection'])
    /\ pc' = [pc EXCEPT ![Resumed] = "findOneAndUpdate"]
    /\ UNCHANGED execError

\* FindOneAndUpdateQuery.exec up to its await of findOneAndUpdate(filter,
\* update, options): no branch on this._population.  this._update.$set
\* becomes {...fieldUpdates, ...this._update.$set}, the field updates being
\* computed by this call; the command is recorded with its filter, the
\* update as it stands at the call, this._options and the projection.
ExecFindOneAndUpdate ==
    /\ _update' = [_update EXCEPT
                     !.set = ObjectOf(ObjectAssign(getFieldUpdates(_schema, Resumed),
                                                   _update.set.entries))]
    /\ _projection' = addExtraInputsToProjection(_projection)
    /\ commands' = Append(commands,
                          [command |-> "findOneAndUpdate", filter |-> _filter,
                           update |-> _update', options |-> _options,
                           projection |-> _projection'])
    /\ pc' = [pc EXCEPT ![Resumed] = "findOneAndUpdate"]
    /\ UNCHANGED execError

\* exec() resumed, with an update query that populates as a find query does
ExecReady_UpdatePopulates ==
    /\ Waiting # {}
    /\ IF Len(_population) # 0
       THEN IF BuildPipeline(_filter, _population).ok
            THEN /\ commands' = Append(commands,
                                       [command |-> "aggregate",
                                        pipeline |-> BuildPipeline(_filter, _population).pipeline])
                 /\ pc' = [pc EXCEPT ![Resumed] = "aggregate"]
                 /\ UNCHANGED <<execError, _projection, _update>>
            ELSE /\ pc' = [pc EXCEPT ![Resumed] = "rejected"]
                 /\ execError' = [execError EXCEPT
                                    ![Resumed] = BuildPipeline(_filter, _population).error]
                 /\ UNCHANGED <<commands, _projection, _update>>
       ELSE /\ commands' = Append(commands,
                                  [command |-> IF queryClass = "FindOneAndUpdateQuery"
                                               THEN "findOneAndUpdate" ELSE "findOne",
                                   filter |-> _filter, update |-> _update,
                                   options |-> _options, projection |-> _projection])
            /\ pc' = [pc EXCEPT ![Resumed] = IF queryClass = "FindOneAndUpdateQuery"
                                             THEN "findOneAndUpdate" ELSE "findOne"]
            /\ UNCHANGED <<execError, _projection, _update>>
    /\ UNCHANGED <<_filter, _population, execCount, queryClass, _schema, execResult,
                   _options, insertQuery>>
    /\ UNCHANGED <<varsSchemaType, varsCollection>>

\* an exec() resumes, this._readyPromise having resolved
ExecReady ==
    /\ Waiting # {}
    /\ IF queryClass = "FindOneAndUpdateQuery" THEN ExecFindOneAndUpdate
       ELSE IF Len(_population) # 0
            THEN ExecWithPopulate /\ UNCHANGED <<_projection, _update>>
       ELSE ExecWithoutPopulate /\ UNCHANGED _update
    /\ UNCHANGED <<_filter, _population, execCount, queryClass, _schema, execResult,
                   _options, insertQuery>>
    /\ UNCHANGED <<varsSchemaType, varsCollection>>

\* the value exec() resolves with: null, or Schema.fromData of the document
\* the store returned
Resolved(found) ==
    IF found = <<>> THEN [kind |-> "null"]
    ELSE [kind |-> "fromData", data |-> found[1]]

\* the store answers the command of an exec(), in whatever order it answers
\* the commands it has, and that exec() resolves
StoreReply(call) ==
    /\ pc[call] \in {"aggregate", "findOne", "findOneAndUpdate"}
    /\ pc' = [pc EXCEPT ![call] = "resolved"]
    /\ LET command == CommandOf(call)
       IN  execResult' =
             [execResult EXCEPT ![call] =
                IF pc[call] = "aggregate"
                THEN Resolved(StoreAggregate(Schemas[_schema].name, command.pipeline))
                ELSE Resolved(StoreFindOne(Schemas[_schema].name, command.filter,
                                           command.projection))]
    /\ UNCHANGED <<_filter, _population, commands, execError, execCount,
                   queryClass, _schema, _projection>>
    /\ UNCHANGED <<varsSchemaType, varsCollection, varsUpdate>>

\* omit(projection)
Omit(projection) ==
    /\ _projection' = makeProjection("omit", projection)
    /\ UNCHANGED <<_filter, _population, pc, commands, execError, execCount,
                   queryClass, _schema, execResult>>
    /\ UNCHANGED <<varsSchemaType, varsCollection, varsUpdate>>

Select_Merged(projection) ==
    /\ _projection' = [k \in DOMAIN _projection \cup projection |->
                          IF k \in projection THEN 1 ELSE _projection[k]]
    /\ UNCHANGED <<_filter, _population, pc, commands, execError, execCount,
                   queryClass, _schema, execResult>>
    /\ UNCHANGED <<varsSchemaType, varsCollection, varsUpdate>>

\* select(projection)
Select(projection) ==
    /\ _projection' = makeProjection("select", projection)
    /\ UNCHANGED <<_filter, _population, pc, commands, execError, execCount,
                   queryClass, _schema, execResult>>
    /\ UNCHANGED <<varsSchemaType, varsCollection, varsUpdate>>

\* options(options), of FindOneQuery and of FindOneAndUpdateQuery
Options(options) ==
    /\ _options' = ObjectAssign(_options, options)
    /\ UNCHANGED <<_filter, _population, pc, commands, execError, execCount,
                   queryClass, _schema, _projection, execResult, _update, insertQuery>>
    /\ UNCHANGED <<varsSchemaType, varsCollection>>

NextQuery ==
    \/ \E population \in PopulationObjects : Populate(population)
    \/ Exec
    \/ ExecReady
    \/ \E call \in 1..Len(pc) : StoreReply(call)

SpecQuery == InitQuery /\ [][NextQuery]_vars

(***************************************************************************)
(* The cursor specification: one operation that opens a cursor, against a  *)
(* driver and a consumer chosen at the start.                               *)
(***************************************************************************)
InitCursor ==
    /\ SchemaTypeIdle
    /\ QueryIdle("FindOneQuery", "posts", "filterA")
    /\ stores = EmptyStores
    /\ bound = Bind("dbA", "users")
    /\ lastCall = NoCall
    /\ opened = EmptyBag
    /\ \E op \in CursorOps, openFails \in BOOLEAN, n \in 0..MaxCursorDocs,
          cursorErr \in {NoErr, ErrCursor} :
        \E docs \in Cursors(n),
           stopAt \in IF op \in SeqOps THEN 0..(n + 1) ELSE {0} :
            cursorOp = CursorOp(op, openFails, docs, cursorErr, stopAt)

CursorStep(next) ==
    /\ cursorOp' = next
    /\ UNCHANGED <<varsSchemaType, varsQuery, stores, bound, lastCall, opened>>

\* for v, err := range seq: the consumer runs the iterator
IteratorRun ==
    /\ cursorOp.op \in SeqOps
    /\ cursorOp.pc = "created"
    /\ CursorStep(FindSeq_Open(cursorOp))

\* cursor.Next(ctx) returns true
IteratorLoop ==
    /\ cursorOp.pc = "loop"
    /\ cursorOp.next < Len(cursorOp.docs)
    /\ CursorStep(FindSeq_Loop(cursorOp))

\* cursor.Next(ctx) returns false
IteratorErr ==
    /\ cursorOp.pc = "loop"
    /\ cursorOp.next = Len(cursorOp.docs)
    /\ CursorStep(FindSeq_Err(cursorOp))

\* the loop body of the consumer ends and yield returns
IteratorYielded ==
    /\ cursorOp.pc = "body"
    /\ CursorStep(FindSeq_Yielded(cursorOp))

\* Find, FindAs, Aggregate or AggregateAs starts
OperationOpen ==
    /\ cursorOp.op \in CursorOps \ SeqOps
    /\ cursorOp.pc = "created"
    /\ CursorStep(Cursor_Open(cursorOp))

\* and goes on to its return
OperationAll ==
    /\ cursorOp.pc = "all"
    /\ CursorStep(Cursor_All(cursorOp))

NextCursor ==
    \/ IteratorRun
    \/ IteratorLoop
    \/ IteratorErr
    \/ IteratorYielded
    \/ OperationOpen
    \/ OperationAll

SpecCursor == InitCursor /\ [][NextCursor]_vars

\* the iterator gets to run and every enabled step of it is taken
FairCursor == SpecCursor /\ WF_vars(NextCursor)

(***************************************************************************)
(* The collection specification: the methods of the collection Users,      *)
(* called with a database in any order, by goroutines that share the       *)
(* stores and make one call at a time each.  A method that waits on the    *)
(* driver once is one step.  Find and Aggregate are two: opened holds the  *)
(* calls that have their cursor and have not called cursor.All yet, and    *)
(* the calls of the other goroutines, Find and Aggregate among them, take  *)
(* effect meanwhile.                                                       *)
(***************************************************************************)
InitCollection ==
    /\ SchemaTypeIdle
    /\ QueryIdle("FindOneQuery", "posts", "filterA")
    /\ CollectionIdle

\* the iterators a consumer ranges over inside one another, it included
RECURSIVE Nesting(_)
Nesting(it) == IF it.pc = "none" THEN 0 ELSE 1 + Nesting(it.outer)

\* the iterator in whose loop body the consumer stands when it calls FindSeq
\* to range over what it returns: in a loop body, the iterator of that
\* body; with an iterator not run yet or ended, which it lets go, the one
\* around that; none while the iterator itself runs
Outers ==
    CASE cursorOp.pc = "none" -> {NoCursorOp}
      [] cursorOp.pc = "body" ->
            IF Nesting(cursorOp) < MaxNesting THEN {cursorOp} ELSE {}
      [] cursorOp.pc \in {"created", "done"} -> {cursorOp.outer}
      [] OTHER -> {}

\* the iterator in the consumer's hands after the call: after FindSeq the
\* one it returned, to range over next, or the one there was when the
\* consumer does not run what FindSeq returned
Held(c, db, call) ==
    IF call.method = "FindSeq"
    THEN {cursorOp}
         \cup {[FindSeqIterator(c, db, call.filter, stopAt) EXCEPT !.outer = outer] :
                  stopAt \in StopChoices, outer \in Outers}
    ELSE {cursorOp}

\* a call returns: the stores it leaves and its record
Returns(receiver, c, ctx, db, call, fault, outcome) ==
    \E returned \in {outcome} :
        /\ stores' = returned.stores
        /\ lastCall' = CallRecord(receiver, c, ctx, db, call, fault, returned)

\* c.<method>(ctx, db, args...) of a method that waits on the driver once,
\* while the driver meets fault: what the call does to the stores, and its
\* record
Called(c, ctx, db, call, fault) ==
    /\ call.method \notin CursorMethods
    /\ Returns("Collection", c, ctx, db, call, fault,
               Collection_Call(c, ctx, db, call, Env(stores, fault)))
    /\ UNCHANGED <<bound, opened>>
    /\ UNCHANGED <<varsSchemaType, varsQuery>>

\* a goroutine is free to make a call: not every one is inside a call of
\* Find or Aggregate
Free == BagCardinality(opened) < MaxGoroutines

\* Find or Aggregate up to its second wait, operation being what the method
\* gives: with the error of collection.Find or collection.Aggregate the call
\* returns; else it holds its cursor and has returned nothing yet
Opens(receiver, operation) ==
    /\ IF operation.pc = "done"
       THEN /\ Returns(receiver, operation.c, operation.ctx, operation.db, operation.call,
                       operation.fault, Returned(operation, stores))
            /\ UNCHANGED opened
       ELSE /\ opened' = opened (+) SetToBag({[operation EXCEPT !.receiver = receiver]})
            /\ UNCHANGED <<stores, lastCall>>
    /\ UNCHANGED <<bound, cursorOp>>
    /\ UNCHANGED <<varsSchemaType, varsQuery>>

\* the operation as cursor.All meets fault: under decode the documents of
\* its cursor cannot be decoded
Decoding(it, fault) ==
    [it EXCEPT !.fault = fault,
               !.docs = [i \in 1..Len(it.docs) |->
                           [it.docs[i] EXCEPT !.decodable = (fault # "decode")]]]

\* a call that holds a cursor goes on while the driver meets fault:
\* cursor.All(ctx, &results) answers, the deferred Close runs and the call
\* returns
CursorAll(operation, fault) ==
    /\ BagIn(operation, opened)
    /\ LET done == Cursor_All(Decoding(operation, fault))
       IN  Returns(done.receiver, done.c, done.ctx, done.db, done.call, done.fault,
                   Returned(done, stores))
    /\ opened' = opened (-) SetToBag({operation})
    /\ UNCHANGED <<bound, cursorOp>>
    /\ UNCHANGED <<varsSchemaType, varsQuery>>

\* c.<method>(ctx, db, args...) by a free goroutine while the driver meets
\* fault: the whole call of a method that waits once (the iterator FindSeq
\* returns is its result and is not run), the first part of Find and
\* Aggregate
CollectionCall(c, ctx, db, call, fault) ==
    /\ Free
    /\ IF call.method \in CursorMethods
       THEN Opens("Collection", Collection_Call(c, ctx, db, call, Env(stores, fault)))
       ELSE /\ Called(c, ctx, db, call, fault)
            /\ UNCHANGED cursorOp

\* the call by a caller that ranges over iterators, from a loop body or
\* outside of one, or by another goroutine while an iterator runs
RangeCall(c, ctx, db, call) ==
    /\ Called(c, ctx, db, call, "none")
    /\ cursorOp' \in Held(c, db, call)

\* the consumer starts to range over the iterator a call returned, while the
\* driver meets fault: collection.Find runs now, on the documents as they are
RangeRun(fault) ==
    /\ cursorOp.pc = "created"
    /\ cursorOp' = FindSeq_Open(Found(cursorOp, fault, stores[cursorOp.db][cursorOp.c]))
    /\ UNCHANGED <<stores, bound, lastCall, opened>>
    /\ UNCHANGED <<varsSchemaType, varsQuery>>

\* the range statement over an iterator that ended inside a loop body is
\* over: that loop body goes on
RangeEnd ==
    /\ cursorOp.pc = "done"
    /\ cursorOp.outer.pc = "body"
    /\ CursorStep(cursorOp.outer)

\* the database the callers of the collection specification pass
CalledDB == "dbA"

\* calls with a plain context under any fault
NextCollection ==
    \/ \E call \in Calls :
          \E fault \in FaultsOf(call.method) :
              CollectionCall(Users, Background, CalledDB, call, fault)
    \/ \E operation \in BagToSet(opened) :
          \E fault \in FaultsOfAll : CursorAll(operation, fault)

SpecCollection == InitCollection /\ [][NextCollection]_vars

(***************************************************************************)
(* The range specification: a caller that inserts and deletes documents of *)
(* Users in one database, calls FindSeq and ranges over the iterator, with *)
(* other calls between the call and the ranging and inside the loop body,  *)
(* among them FindSeq for an iterator to range over in that loop body.     *)
(***************************************************************************)
RangeCalls ==
    [method : {"FindSeq"}, filter : GoFilters]
    \cup [method : {"InsertOne"}, value : Values]
    \cup [method : {"DeleteOne"}, filter : {All}]

NextRange ==
    \/ \E call \in RangeCalls : RangeCall(Users, Background, "dbA", call)
    \/ \E fault \in Faults : RangeRun(fault)
    \/ IteratorLoop
    \/ IteratorErr
    \/ IteratorYielded
    \/ RangeEnd

SpecRange == InitCollection /\ [][NextRange]_vars

(***************************************************************************)
(* The bound-collection specification: one BoundCollection made by Bind,   *)
(* its methods called in any order by goroutines that share it, Find and   *)
(* Aggregate in two steps as in the collection specification.              *)
(***************************************************************************)
InitBound ==
    /\ SchemaTypeIdle
    /\ QueryIdle("FindOneQuery", "posts", "filterA")
    /\ stores = EmptyStores
    /\ bound = Bind("dbB", "posts")
    /\ lastCall = NoCall
    /\ cursorOp = NoCursorOp
    /\ opened = EmptyBag

\* bc.<method>(ctx, args...) by a free goroutine while the driver meets fault
BoundCall(ctx, call, fault) ==
    /\ Free
    /\ IF call.method \in CursorMethods
       THEN Opens("BoundCollection", BoundCollection_Call(bound, ctx, call, Env(stores, fault)))
       ELSE /\ Returns("BoundCollection", bound.c, ctx, bound.db, call, fault,
                       BoundCollection_Call(bound, ctx, call, Env(stores, fault)))
            /\ UNCHANGED <<bound, cursorOp, opened>>
            /\ UNCHANGED <<varsSchemaType, varsQuery>>

NextBound ==
    \/ \E call \in Calls :
          \E fault \in FaultsOf(call.method) : BoundCall(Background, call, fault)
    \/ \E operation \in BagToSet(opened) :
          \E fault \in FaultsOfAll : CursorAll(operation, fault)

SpecBound == InitBound /\ [][NextBound]_vars

(***************************************************************************)
(* The projection specification: one query of either class, on which       *)
(* select(), omit() and exec() are called in any order.                    *)
(***************************************************************************)
InitProjection ==
    /\ SchemaTypeIdle
    /\ \E class \in QueryClasses, schema \in QuerySchemas, filter \in Filters :
          QueryIdle(class, schema, filter)
    /\ CollectionIdle

NextProjection ==
    \/ \E projection \in SUBSET ProjectionKeys : Omit(projection)
    \/ \E projection \in SUBSET ProjectionKeys : Select(projection)
    \/ Exec
    \/ ExecReady
    \/ \E call \in 1..Len(pc) : StoreReply(call)

SpecProjection == InitProjection /\ [][NextProjection]_vars

(***************************************************************************)
(* The relation specification: a FindOneQuery on any of the schemas, the   *)
(* one whose relation is declared on another field included, populated     *)
(* with its declared relations and executed.                               *)
(***************************************************************************)
InitRelation ==
    /\ SchemaTypeIdle
    /\ \E schema \in DOMAIN Schemas, filter \in Filters :
          QueryIdle("FindOneQuery", schema, filter)
    /\ CollectionIdle

\* populate({[key]: value}) for a relation the schema declares
PopulateRelation ==
    \E key \in DOMAIN Relations, value \in BOOLEAN :
        Populate(<< [key |-> key, value |-> value] >>)

NextRelation ==
    \/ PopulateRelation
    \/ \E options \in OptionObjects : Options(options)
    \/ Exec
    \/ ExecReady
    \/ \E call \in 1..Len(pc) : StoreReply(call)

SpecRelation == InitRelation /\ [][NextRelation]_vars

(***************************************************************************)
(* The update specification: a FindOneAndUpdateQuery constructed with any  *)
(* of the updates, configured and executed in any order.                   *)
(***************************************************************************)
InitUpdate ==
    /\ SchemaTypeIdle
    /\ \E schema \in QuerySchemas, set \in CallerSets :
          UpdateQueryIdle(schema, "filterB", [set |-> set])
    /\ CollectionIdle

NextUpdate ==
    \/ PopulateRelation
    \/ Omit({"title"})
    \/ Select({"title"})
    \/ \E options \in OptionObjects : Options(options)
    \/ Exec
    \/ ExecReady
    \/ \E call \in 1..Len(pc) : StoreReply(call)

SpecUpdate == InitUpdate /\ [][NextUpdate]_vars

(***************************************************************************)
(* The insert specification: one InsertOneQuery or InsertManyQuery with    *)
(* its data, on which exec() is called any number of times, against a      *)
(* store that assigns generated ids to the documents it is given or leaves *)
(* them as they are, and answers the inserts in any order.  execs holds    *)
(* the exec() calls in call order: the documents each sent, and, once the  *)
(* store has answered it, the inserted ids and what the call resolved      *)
(* with.                                                                   *)
(***************************************************************************)
InsertIdle(class, data, assigns) ==
    insertQuery = [ class |-> class, data |-> data, assigns |-> assigns, execs |-> << >> ]

InitInsert ==
    /\ SchemaTypeIdle
    /\ queryClass = "FindOneQuery"
    /\ _schema = "posts"
    /\ _filter = "filterA"
    /\ _projection = makeProjection("omit", SchemaOmit("posts"))
    /\ _population = <<>>
    /\ pc = <<>>
    /\ commands = <<>>
    /\ execError = <<>>
    /\ execCount = 0
    /\ execResult = <<>>
    /\ _update = [set |-> NoObject]
    /\ _options = <<>>
    /\ CollectionIdle
    /\ \E assigns \in BOOLEAN :
          \/ \E data \in InputDocuments : InsertIdle("InsertOneQuery", <<data>>, assigns)
          \/ \E n \in 1..MaxInsertDocs : \E data \in [1..n -> InputDocuments] :
                InsertIdle("InsertManyQuery", data, assigns)

InsertStep(next) ==
    /\ insertQuery' = next
    /\ UNCHANGED <<_filter, _population, pc, commands, execError, execCount,
                   queryClass, _schema, _projection, execResult, _update, _options>>
    /\ UNCHANGED <<varsSchemaType, varsCollection>>

\* exec() up to its await of insertOne(this.data) or insertMany(this.data),
\* whatever became of the calls before it: the documents are handed over
\* as they are now, and a store that assigns writes the ids it generates
\* into them in the call
InsertExec ==
    /\ Len(insertQuery.execs) < MaxExec
    /\ LET command == Len(insertQuery.execs) + 1
       IN  InsertStep([insertQuery EXCEPT
                         !.execs = Append(@, [ pc |-> "inserting",
                                               sent |-> insertQuery.data,
                                               insertedIds |-> << >>,
                                               output |-> << >> ]),
                         !.data = Inserted(insertQuery.data, insertQuery.assigns, command)])

\* the store answers the insert of one exec(), which resolves with the
\* outputs made from this.data as it is now
InsertReply(call) ==
    /\ insertQuery.execs[call].pc = "inserting"
    /\ LET insertedIds == InsertedIds(insertQuery.execs[call].sent, call)
           data == insertQuery.data
       IN  InsertStep([insertQuery EXCEPT
                         !.execs[call] =
                            [ pc |-> "resolved",
                              sent |-> @.sent,
                              insertedIds |-> insertedIds,
                              output |-> IF insertQuery.class = "InsertOneQuery"
                                         THEN << InsertOneQuery_exec(data[1], insertedIds[1]) >>
                                         ELSE InsertManyQuery_exec(data, insertedIds) ]])

NextInsert ==
    \/ InsertExec
    \/ \E call \in 1..Len(insertQuery.execs) : InsertReply(call)

SpecInsert == InitInsert /\ [][NextInsert]_vars

(***************************************************************************)
(* Claims about the field types, checked under SpecSchemaType.  result is  *)
(* the outcome of the most recent call, so when result.op is a validation  *)
(* the object validated is schemaType as it stands.                        *)
(***************************************************************************)
Validated(op) == result.op = op
ValidatedAny == result.op \in {"baseParse", "parse"}

\* value is a native value of the kind: a string, a number, a boolean, a Date
NativeOf(kind, value) ==
    CASE kind = "string" -> TypeOf(value) = "string"
      [] kind = "number" -> TypeOf(value) = "number"
      [] kind = "boolean" -> TypeOf(value) = "boolean"
      [] kind = "date" -> InstanceOfDate(value)

\* C1: on a field on which nullable() was called, validating an explicit null
\* succeeds and returns null, whatever the kind and the required flag.
C1_NullableAcceptsNull ==
    (Validated("baseParse") /\ schemaType._nullable /\ result.input = Null)
        => (result.ok /\ result.value = Null)

\* C2: validating an absent value fails only if the field is required and has
\* no default, and otherwise returns the configured default.
C2_AbsentReturnsDefault ==
    (Validated("baseParse") /\ result.input = Undefined)
        => IF schemaType._required /\ schemaType._default = Undefined
           THEN ~result.ok
           ELSE result.ok /\ result.value = schemaType._default

\* C3: on a required field with no default, validating an absent value fails
\* with the required-field error and returns no value.
C3_RequiredAbsentFails ==
    (ValidatedAny /\ schemaType._required /\ schemaType._default = Undefined
                  /\ result.input = Undefined)
        => /\ ~result.ok
           /\ result.value = Undefined
           /\ Validated("baseParse") => result.error.msg = "Field is required."

C3_Witness ==
    /\ Validated("baseParse")
    /\ schemaType._required
    /\ schemaType._default = Undefined
    /\ result.input = Undefined
    /\ ~result.ok
    /\ result.error.msg = "Field is required."

\* the fields of the User scenario
UserName == MonarchString_create
UserAge == default(MonarchNumber_create, Num(0))
UserStatus == nullable(MonarchString_create)

\* C4: with name = string(), age = number().default(0) and
\* status = string().nullable(), validating the fields of {name: "Ana"} succeeds
\* for all three and yields "Ana", 0 and null.
C4_UserScenario ==
    /\ (ValidatedAny /\ schemaType = UserName /\ result.input = Str(<<"A", "n", "a">>))
            => (result.ok /\ result.value = Str(<<"A", "n", "a">>))
    /\ (ValidatedAny /\ schemaType = UserAge /\ result.input = Undefined)
            => (result.ok /\ result.value = Num(0))
    /\ (ValidatedAny /\ schemaType = UserStatus /\ result.input = Undefined)
            => (result.ok /\ result.value = Null)

\* C5: a present, non-null value whose runtime type differs from the declared
\* kind always fails validation; no coerced value is returned, whether the field
\* is required or optional.
C5_MismatchFails ==
    (ValidatedAny /\ result.input \notin {Undefined, Null}
                  /\ ~NativeOf(schemaType.type, result.input))
        => (~result.ok /\ result.value = Undefined)

\* C6: a present value that is a native value of the declared kind passes the
\* type check and is returned, for every kind in string, number, date, boolean.
C6_NativeAccepted ==
    (ValidatedAny /\ NativeOf(schemaType.type, result.input))
        => /\ result.ok
           /\ Validated("baseParse") => result.value = result.input

\* C7: a default never replaces a present value: a present value that passes
\* validation is what the returned value comes from, and the default is returned
\* only for an absent value.
C7_DefaultNeverReplaces ==
    /\ (Validated("baseParse") /\ result.ok /\ result.input # Undefined)
            => result.value = result.input
    /\ (Validated("baseParse") /\ result.ok /\ result.value # result.input)
            => (result.input = Undefined /\ result.value = schemaType._default)
    /\ (Validated("parse") /\ result.ok /\ NativeOf(schemaType.type, result.input))
            => IF schemaType.type = "string"
               THEN ToLowerCase(result.value.s) = ToLowerCase(result.input.s)
               ELSE result.value = result.input

C7_Witness ==
    /\ Validated("baseParse")
    /\ schemaType._default \notin {Undefined, Null}
    /\ result.input \notin {Undefined, schemaType._default}
    /\ result.ok
    /\ result.value = result.input

\* what the chain of a string field makes of the characters s: the case of the
\* last uppercase()/lowercase() call, s itself when there was none
ChainOutcome(transformations, s) ==
    IF Len(transformations) = 1 THEN s
    ELSE IF transformations[Len(transformations)] = "toUpperCase" THEN ToUpperCase(s)
    ELSE ToLowerCase(s)

\* C8: parse of a string field returns the input with the transformations applied
\* in registration order, the built-in stringify first and then each
\* uppercase()/lowercase() in the order chained, and applies none when validation
\* fails.
C8_TransformationsInOrder ==
    (Validated("parse") /\ schemaType.type = "string")
        => /\ schemaType.transformations[1] = "String"
           /\ IF TypeOf(result.input) # "string" /\ schemaType._required
              THEN ~result.ok /\ result.value = Undefined
              ELSE /\ result.ok
                   /\ result.value =
                        Str(ChainOutcome(schemaType.transformations, StringOf(result.input).s))

C8_Witness ==
    /\ Validated("parse")
    /\ schemaType.transformations = <<"String", "toUpperCase", "toLowerCase">>
    /\ result.input = Str(<<"a", "B">>)
    /\ result.ok
    /\ result.value = Str(<<"a", "b">>)

(***************************************************************************)
(* Claims about the population pipeline, checked under SpecQuery.          *)
(***************************************************************************)
Truthy(population) == SelectSeq(population, LAMBDA e : e.value)

\* pipeline is one $match with the filter, then the five stages of each truthy
\* key of population, in the order of its entries
PipelineOf(pipeline, filter, population) ==
    LET truthy == Truthy(population)
    IN  /\ Len(pipeline) = 1 + 5 * Len(truthy)
        /\ pipeline[1] = [op |-> "$match", filter |-> filter]
        /\ \A i \in 1..Len(truthy) :
              LET base == 1 + 5 * (i - 1)
                  key == truthy[i].key
                  temporary == pipeline[base + 1].as
              IN  /\ pipeline[base + 1].op = "$lookup"
                  /\ pipeline[base + 2] = [op |-> "$unwind", path |-> "$" \o temporary]
                  /\ pipeline[base + 3] = [op |-> "$unset", field |-> key]
                  /\ pipeline[base + 4] = [op |-> "$set", field |-> key, value |-> "$" \o temporary]
                  /\ pipeline[base + 5] = [op |-> "$unset", field |-> temporary]
                  /\ temporary # key

\* C9: the pipeline FindOneQuery builds for a population with N truthy keys has
\* 1 + 5N stages: one $match with the caller's filter, then per truthy key, in
\* request order, $lookup, $unwind, $unset key, $set key, $unset temporary;
\* falsy keys contribute nothing.
C9_PipelineShape ==
    [][ \A call \in 1..Len(pc) :
          (pc[call] = "awaitReady" /\ pc'[call] = "aggregate")
            => /\ Len(commands') = Len(commands) + 1
               /\ commands'[Len(commands')].command = "aggregate"
               /\ PipelineOf(commands'[Len(commands')].pipeline, _filter, _population) ]_vars

\* the second of two exec() calls built its pipeline while the first, which
\* built one for author alone, still waited for the store
C9_Witness ==
    /\ pc = << "aggregate", "aggregate" >>
    /\ _population = << [key |-> "author", value |-> TRUE],
                        [key |-> "ghost", value |-> FALSE],
                        [key |-> "editor", value |-> TRUE] >>
    /\ Len(CommandOf(1).pipeline) = 6
    /\ Len(CommandOf(2).pipeline) = 11
    /\ CommandOf(2).pipeline[4].field = "author"
    /\ CommandOf(2).pipeline[9].field = "editor"

UnknownTruthy(population) ==
    {population[i].key : i \in {j \in 1..Len(population) :
        population[j].value /\ population[j].key \notin DOMAIN Relations}}

\* C10: when a truthy population key is not a relation of the schema, building
\* the pipeline fails with an unknown-relation error that identifies the key, and
\* no store command is issued.
C10_UnknownRelationError ==
    [][ \A call \in 1..Len(pc) :
          (pc[call] = "awaitReady" /\ pc'[call] # pc[call] /\ UnknownTruthy(_population) # {})
            => /\ pc'[call] = "rejected"
               /\ commands' = commands
               /\ execError'[call].name = "UnknownRelationError"
               /\ execError'[call].key \in UnknownTruthy(_population) ]_vars

\* the exec() has resolved with the answer to the aggregation it issued
ResolvedAggregate(call) ==
    /\ pc[call] = "resolved"
    /\ CommandOf(call).command = "aggregate"

\* the aggregate commands the query has issued
Aggregations == {commands[i] : i \in {j \in 1..Len(commands) : commands[j].command = "aggregate"}}

\* the relations populated by a pipeline: the number of its five-stage blocks
Blocks(pipeline) == 1..((Len(pipeline) - 1) \div 5)

\* the five stages of block b, and what they name
BlockStages(pipeline, b) == SubSeq(pipeline, 5 * b - 3, 5 * b + 1)
BlockKey(pipeline, b) == pipeline[5 * b].field
BlockVariable(pipeline, b) == pipeline[5 * b - 3].let.name
BlockTemporary(pipeline, b) == pipeline[5 * b - 3].as

\* C11: for any two distinct relations populated in the same query, the
\* pipeline-local variable names bound in their $lookup stages are distinct.
C11_LookupVariablesDistinct ==
    \A command \in Aggregations :
        \A a, b \in Blocks(command.pipeline) :
            BlockKey(command.pipeline, a) # BlockKey(command.pipeline, b)
                => BlockVariable(command.pipeline, a) # BlockVariable(command.pipeline, b)

\* the stage reads or writes the field of the host document
Touches(stage, field) ==
    CASE stage.op = "$match" -> FALSE
      [] stage.op = "$lookup" -> stage.let.value = "$" \o field \/ stage.as = field
      [] stage.op = "$unwind" -> stage.path = "$" \o field
      [] stage.op = "$unset" -> stage.field = field
      [] stage.op = "$set" -> stage.field = field \/ stage.value = "$" \o field

\* C12: for any two distinct relation keys populated in one query, also when
\* both target the same collection, the temporary joined-array field names are
\* distinct, and the five stages of one relation neither read nor modify the
\* field the other populates, nor its temporary field.
C12_RelationsIndependent ==
    \A command \in Aggregations :
        \A a, b \in Blocks(command.pipeline) :
            a # b =>
                /\ BlockKey(command.pipeline, a) # BlockKey(command.pipeline, b)
                /\ BlockTemporary(command.pipeline, a) # BlockTemporary(command.pipeline, b)
                /\ \A i \in 1..5 :
                      LET stage == BlockStages(command.pipeline, a)[i]
                      IN  /\ ~Touches(stage, BlockKey(command.pipeline, b))
                          /\ ~Touches(stage, BlockTemporary(command.pipeline, b))

\* an exec() that populated author and editor, both of users, has resolved
\* with each in its own field, another exec() of the query still waiting for
\* the store
C12_Witness ==
    /\ _schema = "posts"
    /\ \E call, other \in 1..Len(pc) :
          /\ ResolvedAggregate(call)
          /\ pc[other] = "aggregate"
          /\ Len(CommandOf(call).pipeline) = 11
          /\ CommandOf(call).pipeline[2].from = CommandOf(call).pipeline[7].from
          /\ CommandOf(call).pipeline[2].as = "monarch_author_data"
          /\ CommandOf(call).pipeline[7].as = "monarch_editor_data"
          /\ execResult[call].kind = "fromData"
          /\ execResult[call].data["author"] = DocOf(User("u1", "a@x"))
          /\ execResult[call].data["editor"] = DocOf(User("u2", "b@x"))

\* the documents of the relation's target collection the host's foreign key
\* matches
Targets(host, key) ==
    SelectSeq(Store[Relations[key].target.name],
              LAMBDA t : t[Relations[key].options.field] = host[key])

\* the host documents of the query's collection that match the filter and
\* whose foreign key matches a target document for every populated relation
Survivors(filter, pipeline) ==
    SelectSeq(Store[Schemas[_schema].name],
              LAMBDA host : /\ FilterMatches(filter, host)
                            /\ \A b \in Blocks(pipeline) :
                                  Targets(host, BlockKey(pipeline, b)) # <<>>)

\* C13: a host document that matches the filter but whose foreign key matches
\* no target document is absent from the aggregation result: exec() resolves
\* with null when no other host matches, and never with that host carrying a
\* null or unpopulated relation field.
C13_UnmatchedHostDropped ==
    \A call \in 1..Len(pc) :
        ResolvedAggregate(call) =>
            LET pipeline == CommandOf(call).pipeline
                survivors == Survivors(_filter, pipeline)
            IN  IF survivors = <<>> THEN execResult[call] = [kind |-> "null"]
                ELSE /\ execResult[call].kind = "fromData"
                     /\ execResult[call].data["_id"] = survivors[1]["_id"]
                     /\ \A b \in Blocks(pipeline) :
                           /\ BlockKey(pipeline, b) \in DOMAIN execResult[call].data
                           /\ execResult[call].data[BlockKey(pipeline, b)].t = "doc"

\* of two exec() calls waiting for the store at once, the second was
\* answered first and resolved with null
C13_Witness ==
    /\ _schema = "posts"
    /\ _filter = "filterA"
    /\ _population = << [key |-> "author", value |-> TRUE] >>
    /\ \E i \in 1..Len(Store["posts"]) :
          /\ FilterMatches(_filter, Store["posts"][i])
          /\ Targets(Store["posts"][i], "author") = <<>>
    /\ Len(pc) = 2
    /\ pc[1] \in {"aggregate", "findOne"}
    /\ ResolvedAggregate(2)
    /\ execResult[2] = [kind |-> "null"]

\* C14: each exec() of a FindOneQuery issues exactly one store command: an
\* aggregation when some population key has a truthy value, and otherwise a
\* plain findOne carrying the filter and the projection; no other step issues
\* a command.
C14_OneCommandPerExec ==
    [][ IF \E call \in 1..Len(pc) : pc[call] = "awaitReady" /\ pc'[call] # pc[call]
        THEN /\ Len(commands') = Len(commands) + 1
             /\ SubSeq(commands', 1, Len(commands)) = commands
             /\ IF Truthy(_population) # <<>>
                THEN commands'[Len(commands')].command = "aggregate"
                ELSE /\ commands'[Len(commands')].command = "findOne"
                     /\ commands'[Len(commands')].filter = _filter
                     /\ commands'[Len(commands')].projection = _projection
        ELSE commands' = commands ]_vars

\* C15: when population is requested, the aggregation pipeline contains,
\* besides the $match and the relation stages, a stage derived from the
\* query's projection: a $project, or an $unset of a field the projection
\* omits.
C15_ProjectionStage ==
    \A command \in Aggregations :
        (Blocks(command.pipeline) # {} /\ DOMAIN _projection # {}) =>
            \E i \in 1..Len(command.pipeline) :
                \/ command.pipeline[i].op = "$project"
                \/ /\ command.pipeline[i].op = "$unset"
                   /\ command.pipeline[i].field \in DOMAIN _projection

(***************************************************************************)
(* Claims about the projection, checked under SpecProjection.              *)
(***************************************************************************)
\* the omit-mode projection over a set of fields
OmitMode(fields) == [k \in fields |-> 0]

\* C16: a freshly constructed query carries the schema's default omit set as
\* an omit-mode projection; omit(P) makes the projection omit-mode over the
\* union of the schema's default omit set and P; exec() leaves it as it is.
C16_OmitUnion ==
    /\ _projection = OmitMode(SchemaOmit(_schema))
    /\ [][ /\ \A P \in SUBSET ProjectionKeys :
                Omit(P) => _projection' = OmitMode(SchemaOmit(_schema) \cup P)
           /\ pc' # pc => _projection' = _projection ]_vars

\* the projection flags some field other than _id with 1 and another with 0
Mixed(projection) ==
    \E k, l \in DOMAIN projection \ {"_id"} : projection[k] = 1 /\ projection[l] = 0

\* the findOne and findOneAndUpdate commands issued
ProjectedCommands ==
    {commands[i] : i \in {j \in 1..Len(commands) :
        commands[j].command \in {"findOne", "findOneAndUpdate"}}}

\* C17: after any sequence of select() and omit() calls on a FindOneQuery or a
\* FindOneAndUpdateQuery, neither the query's projection nor the projection
\* attached to a store command flags one non-_id field with 1 and another
\* with 0.
C17_ProjectionNeverMixed ==
    /\ ~Mixed(_projection)
    /\ \A command \in ProjectedCommands :
          /\ ~Mixed(command.projection)
          /\ \A k \in DOMAIN command.projection : command.projection[k] \in {0, 1}

\* select() then exec(), omit() then exec() again while the first still
\* waited for the store: each command carries the projection of its call,
\* and the second exec() has resolved
C17_Witness ==
    /\ queryClass = "FindOneAndUpdateQuery"
    /\ Len(commands) = 2
    /\ commands[1].projection = [title |-> 1, secret |-> 1]
    /\ commands[2].projection = [title |-> 0]
    /\ pc = << "findOneAndUpdate", "resolved" >>
    /\ "title" \notin DOMAIN execResult[2].data
    /\ "secret" \in DOMAIN execResult[2].data

(***************************************************************************)
(* Claims about the Go collections, checked under SpecCollection and       *)
(* SpecBound.  lastCall is the most recent call; in a step, the unprimed   *)
(* stores are the documents the call found.                                *)
(***************************************************************************)
\* the step in which a call of Find or Aggregate got its cursor and returned
\* nothing, and the one in which cursor.All answered a call and it returned;
\* in every other step a call was made and returned
GotCursor == BagCardinality(opened') > BagCardinality(opened)
AllReturned == BagCardinality(opened') < BagCardinality(opened)

\* the call that got its cursor in the step, and the calls of which one
\* may have returned in the step
Joined == CHOOSE operation \in BagToSet(opened') :
              CopiesIn(operation, opened') > CopiesIn(operation, opened)
Left == {operation \in BagToSet(opened) : opened' = opened (-) SetToBag({operation})}

\* C18: Find, FindOne, InsertOne, UpdateOne, DeleteOne, CountDocuments and
\* Aggregate, called with a context into which WithContext injected no
\* database (the contexts for which getDB returns ErrNoDatabase), return
\* ErrNoDatabase and call no driver operation.
C18_NoDatabaseInContext ==
    ( /\ lastCall.receiver = "Collection"
      /\ lastCall.ctx \in Contexts
      /\ getDB(lastCall.ctx).err = ErrNoDatabase
      /\ lastCall.fault = "none"
      /\ lastCall.call.method \in {"Find", "FindOne", "InsertOne", "UpdateOne", "DeleteOne",
                                    "CountDocuments", "Aggregate"} )
        => (lastCall.err = ErrNoDatabase /\ lastCall.driver = <<>>)

\* the error the driver returns for the call on the documents docs; for Find
\* and Aggregate the error of collection.Find and collection.Aggregate
DriverError(call, docs, fault) ==
    CASE call.method = "FindSeq" -> NoErr
      [] call.method = "Find" -> driver_Find(fault, docs, call.filter).err
      [] call.method = "Aggregate" -> driver_Find(fault, docs, call.pipeline[1].match).err
      [] call.method = "FindOne" -> driver_FindOne(fault, docs, call.filter).err
      [] call.method = "FindOneAndUpdate" ->
            driver_FindOneAndUpdate(fault, docs, call.filter, call.update).err
      [] call.method = "FindOneAndReplace" ->
            driver_FindOneAndReplace(fault, docs, call.filter, call.replacement).err
      [] call.method = "FindOneAndDelete" -> driver_FindOneAndDelete(fault, docs, call.filter).err
      [] call.method = "InsertOne" -> driver_InsertOne(fault, docs, call.value).err
      [] call.method = "InsertMany" -> driver_InsertMany(fault, docs, call.values).err
      [] call.method = "UpdateOne" -> driver_UpdateOne(fault, docs, call.filter, call.update).err
      [] call.method = "UpdateMany" -> driver_UpdateMany(fault, docs, call.filter, call.update).err
      [] call.method = "ReplaceOne" ->
            driver_ReplaceOne(fault, docs, call.filter, call.replacement).err
      [] call.method = "DeleteOne" -> driver_DeleteOne(fault, docs, call.filter).err
      [] call.method = "DeleteMany" -> driver_DeleteMany(fault, docs, call.filter).err
      [] call.method = "CountDocuments" -> driver_CountDocuments(fault, docs, call.filter).err

\* C19: every Collection method returns the error the driver returned,
\* unchanged (Find and Aggregate the error of collection.Find or
\* collection.Aggregate at once and none without one, and else, whatever
\* calls were made meanwhile, the error of cursor.All on the cursor they
\* got); FindOne returns the zero value and mongo.ErrNoDocuments whenever
\* the command runs and no document matches the filter, also when the only
\* match was removed just before by DeleteOne or FindOneAndDelete.
C19_DriverErrorsUnchanged ==
    [][ CASE GotCursor -> lastCall' = lastCall
          [] AllReturned ->
                \E operation \in Left :
                    /\ lastCall'.call = operation.call
                    /\ lastCall'.err =
                          cursor_All(lastCall'.fault,
                                     [i \in 1..Len(operation.docs) |->
                                         operation.docs[i].doc]).err
          [] OTHER ->
                LET docs == stores[lastCall'.db][lastCall'.c]
                IN  /\ lastCall'.err = DriverError(lastCall'.call, docs, lastCall'.fault)
                    /\ lastCall'.call.method \in CursorMethods => lastCall'.err # NoErr
                    /\ ( /\ lastCall'.call.method = "FindOne"
                         /\ lastCall'.fault # "command"
                         /\ \A d \in docs : ~Matches(lastCall'.call.filter, d) )
                            => (lastCall'.err = ErrNoDocuments /\ lastCall'.result = Zero)
      ]_vars

C19_Witness ==
    /\ lastCall.receiver = "Collection"
    /\ lastCall.call = [method |-> "FindOne", filter |-> ById(1)]
    /\ lastCall.follows = [method |-> "FindOneAndDelete", removed |-> {1}]
    /\ lastCall.fault = "none"
    /\ lastCall.err = ErrNoDocuments
    /\ lastCall.result = Zero
    /\ stores[lastCall.db][lastCall.c] = {Doc(2, 1)}
    /\ \E operation \in BagToSet(opened) :
          /\ operation.call = [method |-> "Find", filter |-> ById(1)]
          /\ Len(operation.docs) = 1

\* C20: a method of the BoundCollection made by Bind(db, c) returns what the
\* Collection method of the same name returns on c with db, has the same
\* effect on the stores and makes the same driver calls, at both waits of
\* Find and Aggregate; the bound database and collection never change.
C20_BoundEqualsCollection ==
    [][ CASE GotCursor ->
                \E joined \in {Joined} :
                    \E direct \in {Collection_Call(bound.c, joined.ctx, bound.db, joined.call,
                                                    Env(stores, joined.fault))} :
                        /\ bound' = bound
                        /\ opened' = opened (+) SetToBag({[direct EXCEPT
                                                             !.receiver = "BoundCollection"]})
                        /\ lastCall' = lastCall
                        /\ stores' = stores
          [] AllReturned ->
                \E operation \in Left :
                    \E direct \in {Returned(Cursor_All(Decoding(operation, lastCall'.fault)),
                                             stores)} :
                        /\ bound' = bound
                        /\ operation.c = bound.c /\ operation.db = bound.db
                        /\ lastCall'.receiver = "BoundCollection"
                        /\ lastCall'.call = operation.call
                        /\ lastCall'.result = direct.result
                        /\ lastCall'.err = direct.err
                        /\ lastCall'.driver = direct.driver
                        /\ stores' = direct.stores
          [] OTHER ->
                \E made \in {Collection_Call(bound.c, lastCall'.ctx, bound.db, lastCall'.call,
                                              Env(stores, lastCall'.fault))} :
                    \E direct \in {IF lastCall'.call.method \in CursorMethods
                                    THEN Returned(made, stores)
                                    ELSE made} :
                        /\ bound' = bound
                        /\ lastCall'.call.method \in CursorMethods => made.pc = "done"
                        /\ lastCall'.receiver = "BoundCollection"
                        /\ lastCall'.result = direct.result
                        /\ lastCall'.err = direct.err
                        /\ lastCall'.driver = direct.driver
                        /\ stores' = direct.stores
      ]_vars

C20_Witness ==
    /\ bound = Bind("dbB", "posts")
    /\ lastCall.receiver = "BoundCollection"
    /\ lastCall.call = [method |-> "DeleteOne", filter |-> All]
    /\ lastCall.result = DeleteResult(1)
    /\ lastCall.driver = << [db |-> "dbB", collection |-> "posts", op |-> "DeleteOne"] >>
    /\ stores["dbB"]["posts"] = {Doc(2, 1)}
    /\ stores["dbA"] = EmptyStores["dbA"]
    /\ stores["dbB"]["users"] = {}
    /\ \E operation \in BagToSet(opened) :
          /\ operation.receiver = "BoundCollection"
          /\ operation.call.method = "Aggregate"
          /\ Len(operation.docs) = 2

(***************************************************************************)
(* Claims about the cursor operations, checked under SpecCursor.           *)
(***************************************************************************)
\* the pair the iterator yields for an item of the cursor
Pair(item) ==
    IF item.decodable THEN [value |-> item.doc, err |-> NoErr]
    ELSE [value |-> Zero, err |-> ErrDecode]

\* the consumer of the iterator stops at some yield
Stops == cursorOp.op \in SeqOps /\ cursorOp.stopAt > 0

\* C21: when the consumer of FindSeq or FindSeqAs stops at a yield, the
\* iterator has ended by then and has called yield no further time, neither
\* for a remaining document nor for a trailing cursor error: the yields are
\* never more than the one stopped at, they are the items of the cursor up
\* to that one, and once the stopping yield is made the iterator is in the
\* loop body of that yield or done
C21_StopEndsIteration ==
    Stops =>
        /\ Len(cursorOp.yields) <= cursorOp.stopAt
        /\ Len(cursorOp.yields) = cursorOp.stopAt => cursorOp.pc \in {"body", "done"}
        /\ \A i \in 1..Len(cursorOp.yields) :
              (~cursorOp.openFails /\ i <= Len(cursorOp.docs))
                  => cursorOp.yields[i] = Pair(cursorOp.docs[i])

\* the consumer stopped at the first of two documents of a cursor that holds
\* an error
C21_Witness ==
    /\ Stops
    /\ cursorOp.stopAt = 1
    /\ Len(cursorOp.docs) = 2
    /\ cursorOp.cursorErr = ErrCursor
    /\ cursorOp.pc = "done"
    /\ Len(cursorOp.yields) = 1

\* find succeeds, nothing fails and the consumer never stops
Clean ==
    /\ cursorOp.op \in SeqOps
    /\ ~cursorOp.openFails
    /\ \A i \in 1..Len(cursorOp.docs) : cursorOp.docs[i].decodable
    /\ cursorOp.cursorErr = NoErr
    /\ cursorOp.stopAt = 0

\* the documents of the cursor, each with a nil error, in cursor order
AllYielded ==
    cursorOp.yields =
        [i \in 1..Len(cursorOp.docs) |-> [value |-> cursorOp.docs[i].doc, err |-> NoErr]]

\* C22: when find succeeds, no error occurs and the consumer never stops,
\* FindSeq yields each document of the cursor exactly once, in cursor
\* order, each with a nil error, and then ends: all along the yields are the
\* first documents of the cursor, and the iterator comes to its end with as
\* many yields as the cursor has documents
C22_YieldsEachDocumentOnce ==
    /\ [](Clean =>
            /\ Len(cursorOp.yields) <= Len(cursorOp.docs)
            /\ \A i \in 1..Len(cursorOp.yields) :
                  cursorOp.yields[i] = [value |-> cursorOp.docs[i].doc, err |-> NoErr])
    /\ (Clean ~> (cursorOp.pc = "done" /\ AllYielded))

\* the iterator ended after the two documents of the cursor
C22_Witness ==
    /\ Clean
    /\ Len(cursorOp.docs) = 2
    /\ cursorOp.pc = "done"
    /\ Len(cursorOp.yields) = 2
    /\ cursorOp.closes = 1

\* what an iterator yields to a consumer that never stops: the error of a
\* failed find alone, else every item of the cursor with the error of
\* decoding it, then the cursor's error if it has one
Expected ==
    IF cursorOp.openFails THEN << [value |-> Zero, err |-> ErrCommand] >>
    ELSE [i \in 1..Len(cursorOp.docs) |-> Pair(cursorOp.docs[i])]
         \o (IF cursorOp.cursorErr # NoErr
             THEN << [value |-> Zero, err |-> cursorOp.cursorErr] >>
             ELSE << >>)

\* C26: as long as the consumer has not stopped, every error FindSeq meets
\* is yielded exactly once and none is dropped: the yields are always the
\* first of the expected ones (a failed find as the single pair of the zero
\* value and the error; each item with the error of decoding it, the items
\* after an undecodable one included; the cursor's error as the last pair),
\* and an iterator that ended without the consumer stopping has yielded
\* them all
C26_ErrorsYieldedOnce ==
    cursorOp.op \in SeqOps =>
        /\ Len(cursorOp.yields) <= Len(Expected)
        /\ cursorOp.yields = SubSeq(Expected, 1, Len(cursorOp.yields))
        /\ (cursorOp.pc = "done" /\ ~cursorOp.stopped) => cursorOp.yields = Expected

\* an undecodable item, a decodable one and a cursor error, all yielded
C26_Witness ==
    /\ cursorOp.op \in SeqOps
    /\ cursorOp.pc = "done"
    /\ ~cursorOp.stopped
    /\ Len(cursorOp.docs) = 2
    /\ ~cursorOp.docs[1].decodable
    /\ cursorOp.docs[2].decodable
    /\ cursorOp.cursorErr = ErrCursor
    /\ Len(cursorOp.yields) = 3

\* C27: every cursor opened by Find, FindSeq, Aggregate, AggregateAs, FindAs
\* or FindSeqAs is closed exactly once before the operation returns or the
\* iterator ends, on every path, and FindSeq opens no cursor until its
\* iterator is run: at most one cursor is opened and only by a find that
\* succeeds, it is never closed more often than opened and stays open while
\* a loop body runs, an operation that is done has closed what it opened,
\* and one that has not run has opened nothing
C27_CursorClosedOnce ==
    cursorOp.op \in CursorOps =>
        /\ cursorOp.closes <= cursorOp.opens
        /\ cursorOp.opens <= 1
        /\ cursorOp.opens = 1 => ~cursorOp.openFails
        /\ cursorOp.pc = "created" => cursorOp.opens = 0
        /\ cursorOp.pc \in {"loop", "all"} => (cursorOp.opens = 1 /\ cursorOp.closes = 0)
        /\ cursorOp.pc = "body" =>
              /\ cursorOp.closes = 0
              /\ cursorOp.opens = (IF cursorOp.openFails THEN 0 ELSE 1)
        /\ cursorOp.pc = "done" =>
              /\ cursorOp.closes = cursorOp.opens
              /\ cursorOp.opens = (IF cursorOp.openFails THEN 0 ELSE 1)

\* FindAs returned the error of cursor.All and closed its cursor
C27_Witness ==
    /\ cursorOp.op = "FindAs"
    /\ cursorOp.pc = "done"
    /\ cursorOp.err = ErrDecode
    /\ cursorOp.opens = 1
    /\ cursorOp.closes = 1

(***************************************************************************)
(* Claims about the populated document, checked under SpecQuery.           *)
(***************************************************************************)
\* the host document of the store that the resolved document came from
HostOf(data) ==
    LET hosts == Store[Schemas[_schema].name]
    IN  hosts[CHOOSE i \in 1..Len(hosts) : hosts[i]["_id"] = data["_id"]]

\* C23: the five stages of one relation, run on a host document that has
\* exactly one matching target document, give a document in which the
\* relation field holds the full related document in place of the foreign
\* key, the temporary joined-array field is absent and every other field of
\* the host is as it was stored
C23_RelationFieldReplaced ==
    \A call \in 1..Len(pc) :
        (ResolvedAggregate(call) /\ execResult[call].kind = "fromData") =>
            LET pipeline == CommandOf(call).pipeline
                data == execResult[call].data
                host == HostOf(data)
                keys == {BlockKey(pipeline, b) : b \in Blocks(pipeline)}
            IN  /\ DOMAIN data = DOMAIN host
                /\ \A b \in Blocks(pipeline) :
                      /\ BlockTemporary(pipeline, b) \notin DOMAIN data
                      /\ Len(Targets(host, BlockKey(pipeline, b))) = 1 =>
                            data[BlockKey(pipeline, b)]
                                = DocOf(Targets(host, BlockKey(pipeline, b))[1])
                /\ \A f \in DOMAIN host \ keys : data[f] = host[f]

\* post p1 populated with its author u1, the one user with that _id, by the
\* first of two exec() calls; the second, made after editor was populated
\* too, has resolved as well, with both replaced
C23_Witness ==
    /\ _schema = "posts"
    /\ _population = << [key |-> "author", value |-> TRUE],
                        [key |-> "editor", value |-> TRUE] >>
    /\ Len(pc) = 2
    /\ ResolvedAggregate(1)
    /\ ResolvedAggregate(2)
    /\ Len(CommandOf(1).pipeline) = 6
    /\ execResult[1].kind = "fromData"
    /\ execResult[1].data["_id"] = S("p1")
    /\ Len(Targets(Store["posts"][1], "author")) = 1
    /\ execResult[1].data["author"] = DocOf(User("u1", "a@x"))
    /\ execResult[1].data["editor"] = S("u2")
    /\ execResult[2].kind = "fromData"
    /\ execResult[2].data["editor"] = DocOf(User("u2", "b@x"))

(***************************************************************************)
(* Claims about the join, checked under SpecRelation.                      *)
(***************************************************************************)
\* the documents of the relation's target collection whose target field
\* equals the host's value of the relation's declared local field
DeclaredTargets(host, key) ==
    SelectSeq(Store[Relations[key].target.name],
              LAMBDA t : t[Relations[key].options.field] = host[LocalField(_schema, key)])

\* C24: the $lookup stage emitted for a relation joins from the relation's
\* target collection and selects exactly the target documents whose target
\* field equals the host document's value of the relation's declared local
\* field, also when the relation is populated under a key that is not the
\* name of that field
C24_LookupJoinsOnLocalField ==
    \A command \in Aggregations :
        \A b \in Blocks(command.pipeline) :
            LET stage == BlockStages(command.pipeline, b)[1]
                key == BlockKey(command.pipeline, b)
                hosts == Store[Schemas[_schema].name]
            IN  /\ stage.from = Relations[key].target.name
                /\ \A i \in 1..Len(hosts) :
                      Lookup(stage, hosts[i])[stage.as]
                          = ArrayOf(DeclaredTargets(hosts[i], key))

(***************************************************************************)
(* Claims about nullable(), checked under SpecSchemaType.                  *)
(***************************************************************************)
\* C25: nullable() sets the nullable flag to true and the default to null,
\* replacing any default configured before, and leaves the required flag,
\* the kind and the transformations as they were
C25_NullableSetsDefaultNull ==
    [][Nullable =>
          /\ schemaType'._nullable = TRUE
          /\ schemaType'._default = Null
          /\ schemaType'._required = schemaType._required
          /\ schemaType'.type = schemaType.type
          /\ schemaType'.transformations = schemaType.transformations]_vars

\* nullable() called last on an optional string field with a transformation
\* chained
C25_Witness ==
    /\ result.op = "nullable"
    /\ schemaType.type = "string"
    /\ schemaType._nullable
    /\ schemaType._default = Null
    /\ ~schemaType._required
    /\ Chained(schemaType) = 1

(***************************************************************************)
(* Claims about FindOneAndUpdateQuery, checked under SpecUpdate.           *)
(***************************************************************************)
\* the exec() calls that have resumed, and so have come to their store
\* command
Issued == Cardinality({call \in 1..Len(pc) : pc[call] # "awaitReady"})

\* C28: on a FindOneAndUpdateQuery populate() has no effect on execution:
\* after any populate, select, omit and options calls, and with other exec()
\* calls of the query pending, each exec() issues exactly one findOneAndUpdate
\* command when it resumes and never an aggregation, no other step issues a
\* command, and the document an exec() resolves with has its relation fields
\* as they are stored
C28_PopulateIgnoredOnUpdate ==
    /\ [](queryClass = "FindOneAndUpdateQuery" =>
            /\ Len(commands) = Issued
            /\ \A i \in 1..Len(commands) :
                  /\ commands[i].command = "findOneAndUpdate"
                  /\ commands[i].filter = _filter
            /\ \A call \in 1..Len(pc) :
                  /\ pc[call] \in {"awaitReady", "findOneAndUpdate", "resolved"}
                  /\ (pc[call] = "resolved" /\ execResult[call].kind = "fromData") =>
                        \A key \in DOMAIN Relations \cap DOMAIN execResult[call].data :
                            execResult[call].data[key] = HostOf(execResult[call].data)[key])
    /\ [][ queryClass = "FindOneAndUpdateQuery" =>
              IF \E call \in 1..Len(pc) : pc[call] = "awaitReady" /\ pc'[call] # pc[call]
              THEN /\ Len(commands') = Len(commands) + 1
                   /\ SubSeq(commands', 1, Len(commands)) = commands
              ELSE commands' = commands ]_vars

\* the update query was told to populate author, selected nothing away, was
\* executed twice, the second exec() issuing its command while the first
\* waited for the store, and the first resolved with post p1 whose author is
\* the stored key
C28_Witness ==
    /\ queryClass = "FindOneAndUpdateQuery"
    /\ _schema = "posts"
    /\ \E i \in 1..Len(_population) : _population[i] = [key |-> "author", value |-> TRUE]
    /\ _options # << >>
    /\ pc = << "resolved", "findOneAndUpdate" >>
    /\ Len(commands) = 2
    /\ execResult[1].kind = "fromData"
    /\ "author" \in DOMAIN execResult[1].data
    /\ execResult[1].data["author"] = S("u1")

\* the value of the key in an object given as its entries
ValueOf(entries, key) ==
    entries[CHOOSE i \in 1..Len(entries) : entries[i].key = key].value

KeysOf(entries) == {entries[i].key : i \in 1..Len(entries)}

\* C29: the $set a FindOneAndUpdateQuery.exec sends is the schema-generated
\* field updates overridden by the caller's $set (for a key in both, the
\* caller's value), and since exec writes the merged $set back into the
\* query's update, every later exec sends the values of the first one, the
\* field updates computed by the first exec included
C29_SetMergedAndKept ==
    /\ [][(ExecReady /\ queryClass = "FindOneAndUpdateQuery") =>
            LET sent == commands'[Len(commands')].update.set.entries
                caller == _update.set.entries
                fieldUpdates == getFieldUpdates(_schema, Resumed)
            IN  /\ KeysOf(sent) = KeysOf(fieldUpdates) \cup KeysOf(caller)
                /\ \A k \in KeysOf(caller) : ValueOf(sent, k) = ValueOf(caller, k)
                /\ \A k \in KeysOf(fieldUpdates) \ KeysOf(caller) :
                      ValueOf(sent, k) = ValueOf(fieldUpdates, k)
                /\ _update'.set.entries = sent
                /\ Len(commands) > 0 => _update' = _update]_vars
    /\ [](queryClass = "FindOneAndUpdateQuery" =>
            \A i \in 1..Len(commands) : commands[i].update = commands[1].update)

\* a second exec on posts, resumed while the first waited for the store, sent
\* the updatedAt computed by the first
C29_Witness ==
    /\ queryClass = "FindOneAndUpdateQuery"
    /\ _schema = "posts"
    /\ pc = << "findOneAndUpdate", "findOneAndUpdate" >>
    /\ Len(commands) = 2
    /\ KeysOf(commands[2].update.set.entries) = {"updatedAt", "title"}
    /\ ValueOf(commands[2].update.set.entries, "updatedAt") = Computed(1)
    /\ ValueOf(commands[2].update.set.entries, "title") = Given("new")
    /\ _update = commands[1].update

(***************************************************************************)
(* Claims about the insert queries, checked under SpecInsert.              *)
(***************************************************************************)
HasIdKey(doc) == \E i \in 1..Len(doc) : doc[i].key = "_id"

\* C30: every InsertManyQuery.exec returns exactly one output per input
\* document, in input order, the i-th decoded from the i-th input with _id
\* set to the i-th inserted id the store answered that exec with, except
\* that an _id key the input document already has, even with the value
\* undefined, takes precedence over the inserted id; InsertOneQuery.exec
\* does the same for its one document
C30_InsertOutputs ==
    insertQuery.class # "none" =>
        \A call \in 1..Len(insertQuery.execs) :
            LET exec == insertQuery.execs[call]
            IN  exec.pc = "resolved" =>
                    /\ Len(exec.output) = Len(insertQuery.data)
                    /\ Len(exec.insertedIds) = Len(insertQuery.data)
                    /\ \A i \in 1..Len(insertQuery.data) :
                          LET input == insertQuery.data[i]
                              output == exec.output[i].data
                          IN  /\ exec.output[i].kind = "fromData"
                              /\ KeysOf(output) = KeysOf(input) \cup {"_id"}
                              /\ \A k \in KeysOf(input) :
                                    ValueOf(output, k) = ValueOf(input, k)
                              /\ ~HasIdKey(input) =>
                                    ValueOf(output, "_id") = exec.insertedIds[i]

\* two documents inserted twice in a store that leaves them as given, the
\* second exec() answered while the first waits: the first document,
\* without an _id key, gets the id generated for it in the second insert,
\* the second keeps its undefined _id although the store generated one
C30_Witness ==
    /\ insertQuery.class = "InsertManyQuery"
    /\ ~insertQuery.assigns
    /\ Len(insertQuery.data) = 2
    /\ Len(insertQuery.execs) = 2
    /\ insertQuery.execs[1].pc = "inserting"
    /\ insertQuery.execs[2].pc = "resolved"
    /\ ~HasIdKey(insertQuery.data[1])
    /\ ValueOf(insertQuery.execs[2].output[1].data, "_id") = Generated(2, 1)
    /\ HasIdKey(insertQuery.data[2])
    /\ insertQuery.execs[2].insertedIds[2] = Generated(2, 2)
    /\ ValueOf(insertQuery.execs[2].output[2].data, "_id") = UndefinedValue

=============================================================================
